---- MODULE Spec2Model ----
(***************************************************************************)
(* Model of the services of birmanet:                                      *)
(*   services/find_better_service.py  (FindBetterService)                  *)
(*   services/auth_service.py         (AuthService)                        *)
(*   services/cache_service.py        (SQLiteCacheService)                 *)
(*   models/database.py               (User, SystemSettings,               *)
(*                                     DEFAULT_THRESHOLDS)                 *)
(*   utils/formatters.py              (calculate_compounded_yield)         *)
(*                                                                         *)
(* Numbers.  Every percentage of the program (thresholds, yields, standard *)
(* deviations, exposures) is a Python float; the model keeps them as       *)
(* integers counted in hundredths of a percent (0.1 % is 10, 5.0 % is      *)
(* 500).  A missing float (pandas NaN) is the value NaN, a missing object  *)
(* (Python None, SQL NULL) is the value NoneVal; both lie outside the      *)
(* range of every real quantity and are never used in arithmetic.          *)
(***************************************************************************)
EXTENDS Integers, Sequences, FiniteSets, TLC

VARIABLES
    DEFAULT_THRESHOLDS, \* the code-defined table of models/database.py
    db,                 \* the system_settings table: key -> row
    service,            \* "none" before the first FindBetterService exists
    query,              \* inputs of the last get_eligible_funds call
    eligible_df,        \* the DataFrame that call returned
    ret,                \* the last call and what it returned
    users,              \* the users table: email -> row
    secrets,            \* how many random tokens and passwords were drawn
    clock,              \* datetime.utcnow() / datetime.now(), in hours
    cache               \* the cache directory: key -> the file <key>_cache.db

vars == <<DEFAULT_THRESHOLDS, db, service, query, eligible_df, ret,
          users, secrets, clock, cache>>

\* what the Find Better engine never touches: accounts, clock, cache files
outside == <<users, secrets, clock, cache>>

\* what the account and cache services never touch
engine == <<DEFAULT_THRESHOLDS, db, service, query, eligible_df>>

NoneVal == -888888
NaN == -999999

----------------------------------------------------------------------------
(* models/database.py: DEFAULT_THRESHOLDS                                  *)

ThresholdConfig(min, max, default, description) ==
    [min |-> min, max |-> max, default |-> default, description |-> description]

InitialThresholds ==
    [k \in {"yield_threshold", "std_threshold", "stock_exposure_threshold",
            "foreign_exposure_threshold", "currency_exposure_threshold",
            "liquidity_threshold"} |->
        CASE k = "yield_threshold" ->
                ThresholdConfig(0, 500, 10, "Minimum yield improvement")
          [] k = "std_threshold" ->
                ThresholdConfig(0, 1500, 0, "Required reduction in standard deviation")
          [] k = "stock_exposure_threshold" ->
                ThresholdConfig(0, 2000, 500, "Tolerance for stock market exposure")
          [] k = "foreign_exposure_threshold" ->
                ThresholdConfig(0, 2000, 500, "Tolerance for foreign exposure")
          [] k = "currency_exposure_threshold" ->
                ThresholdConfig(0, 2000, 500, "Tolerance for currency exposure")
          [] OTHER ->
                ThresholdConfig(0, 2000, 500, "Tolerance for liquid assets")]

KnownKeys == DOMAIN InitialThresholds

\* a key no release defines (tests: 'fake_threshold', 'nonexistent_key')
UnknownKey == "fake_threshold"

AllKeys == KnownKeys \cup {UnknownKey}

----------------------------------------------------------------------------
(* FindBetterService._init_default_settings                                *)

\* the `if not existing` branch: a new SystemSettings row
NewSetting(config) ==
    [value |-> config.default,
     min_value |-> config.min,
     max_value |-> config.max,
     default_value |-> config.default,
     description |-> config.description,
     updated_by |-> NoneVal]

\* the `else` branch resetting every existing value to the new default
RefreshSetting_Reset(existing, config) ==
    [existing EXCEPT !.min_value = config.min,
                     !.max_value = config.max,
                     !.default_value = config.default,
                     !.description = config.description,
                     !.value = config.default]

\* the `else` branch: the bounds, the default and the description are
\* overwritten first, and only then is the value compared with
\* existing.default_value, which by then is already the new default
RefreshSetting(existing, config) ==
    LET refreshed == [existing EXCEPT !.min_value = config.min,
                                      !.max_value = config.max,
                                      !.default_value = config.default,
                                      !.description = config.description]
    IN  IF refreshed.value = NoneVal \/ refreshed.value = refreshed.default_value
        THEN [refreshed EXCEPT !.value = config.default]
        ELSE refreshed

_init_default_settings(table, defaults) ==
    [k \in (DOMAIN table) \cup (DOMAIN defaults) |->
        IF k \notin DOMAIN defaults THEN table[k]
        ELSE IF k \notin DOMAIN table THEN NewSetting(defaults[k])
        ELSE RefreshSetting(table[k], defaults[k])]

----------------------------------------------------------------------------
(* FindBetterService.get_threshold / get_all_thresholds / update_threshold *)

\* get_threshold without its last line: None for a key nobody defines
get_threshold_NoFallback(table, defaults, key) ==
    IF key \in DOMAIN table
    THEN IF table[key].value # NoneVal THEN table[key].value
         ELSE table[key].default_value
    ELSE IF key \in DOMAIN defaults THEN defaults[key].default
    ELSE NoneVal

get_threshold(table, defaults, key) ==
    IF key \in DOMAIN table
    THEN IF table[key].value # NoneVal THEN table[key].value
         ELSE table[key].default_value
    ELSE IF key \in DOMAIN defaults THEN defaults[key].default
    ELSE 0

get_all_thresholds(table) ==
    [k \in DOMAIN table |->
        [value |-> IF table[k].value # NoneVal THEN table[k].value
                   ELSE table[k].default_value,
         min |-> table[k].min_value,
         max |-> table[k].max_value,
         default |-> table[k].default_value,
         description |-> table[k].description]]

\* update_threshold without its upper-bound check
UpdateAccepted_NoMax(table, key, value) ==
    /\ key \in DOMAIN table
    /\ ~(table[key].min_value # NoneVal /\ value < table[key].min_value)

\* update_threshold without its lower-bound check
UpdateAccepted_NoMin(table, key, value) ==
    /\ key \in DOMAIN table
    /\ ~(table[key].max_value # NoneVal /\ value > table[key].max_value)

\* update_threshold comparing with <= and >=: the bounds themselves rejected
UpdateAccepted_Strict(table, key, value) ==
    /\ key \in DOMAIN table
    /\ ~(table[key].min_value # NoneVal /\ value <= table[key].min_value)
    /\ ~(table[key].max_value # NoneVal /\ value >= table[key].max_value)

\* the validation of update_threshold: TRUE when the write goes ahead
UpdateAccepted(table, key, value) ==
    /\ key \in DOMAIN table
    /\ ~(table[key].min_value # NoneVal /\ value < table[key].min_value)
    /\ ~(table[key].max_value # NoneVal /\ value > table[key].max_value)

----------------------------------------------------------------------------
(* pandas values: NaN-aware comparison and arithmetic                      *)

IsNaN(x) == x = NaN

\* a comparison with NaN on either side is False
Ge(a, b) == ~IsNaN(a) /\ ~IsNaN(b) /\ a >= b
Le(a, b) == ~IsNaN(a) /\ ~IsNaN(b) /\ a <= b

\* arithmetic with NaN on either side is NaN
Plus(a, b) == IF IsNaN(a) \/ IsNaN(b) THEN NaN ELSE a + b
Minus(a, b) == IF IsNaN(a) \/ IsNaN(b) THEN NaN ELSE a - b

\* Series.get(key, default) / dict.get(key, default)
Get(row, key, default) == IF key \in DOMAIN row THEN row[key] ELSE default

\* Series.unique(): the distinct values in order of first appearance
RECURSIVE Unique(_)
Unique(s) ==
    IF s = <<>> THEN <<>>
    ELSE LET front == Unique(SubSeq(s, 1, Len(s) - 1))
             last == s[Len(s)]
         IN  IF \E i \in 1..Len(front) : front[i] = last THEN front
             ELSE Append(front, last)

\* the values of one column, row by row
Column(rows, name) == [i \in 1..Len(rows) |-> rows[i][name]]

\* DataFrame.head(n)
Head_n(rows, n) == SubSeq(rows, 1, IF n < Len(rows) THEN n ELSE Len(rows))

\* a call that raised instead of returning a DataFrame
Raise(error) == [raised |-> error, columns |-> {}, rows |-> <<>>]
DataFrame(columns, rows) == [raised |-> "", columns |-> columns, rows |-> rows]

----------------------------------------------------------------------------
(* services/data_service.py: REPORT_DATE = to_datetime(REPORT_PERIOD,      *)
(* format='%Y%m').  A date is counted in months.                           *)

to_datetime(period) == (period \div 100) * 12 + (period % 100) - 1

----------------------------------------------------------------------------
(* utils/formatters.py: calculate_compounded_yield                         *)
(*                                                                         *)
(* Growth factors are fixed-point numbers with six decimals (1.0 is        *)
(* One); a product is cut to six decimals after each multiplication, which *)
(* stands for the rounding of the float arithmetic.                        *)

One == 1000000
Thousand == 1000

\* a * b / One without leaving 32 bits
MulFix(a, b) ==
    LET ah == a \div Thousand
        al == a % Thousand
        bh == b \div Thousand
        bl == b % Thousand
    IN  ah * bh + ((ah * bl + al * bh) + ((al * bl) \div Thousand)) \div Thousand

RECURSIVE PowFix(_, _)
PowFix(x, k) == IF k = 0 THEN One ELSE MulFix(PowFix(x, k - 1), x)

\* the largest z in lo..hi with z^n <= x (lo^n <= x is given)
RECURSIVE RootSearch(_, _, _, _)
RootSearch(x, n, lo, hi) ==
    IF lo >= hi THEN lo
    ELSE LET mid == (lo + hi + 1) \div 2
         IN  IF PowFix(mid, n) <= x THEN RootSearch(x, n, mid, hi)
             ELSE RootSearch(x, n, lo, mid - 1)

\* x ** (12 / n)
Annualize(x, n) ==
    IF 12 % n = 0 THEN PowFix(x, 12 \div n)
    ELSE RootSearch(PowFix(x, 12), n, 0, 2 * One)

\* growth_factors.prod(): NaN entries are skipped
RECURSIVE Prod(_)
Prod(monthly_yields) ==
    IF monthly_yields = <<>> THEN One
    ELSE LET rest == Prod(SubSeq(monthly_yields, 1, Len(monthly_yields) - 1))
             last == monthly_yields[Len(monthly_yields)]
         IN  IF IsNaN(last) THEN rest ELSE MulFix(rest, One + 100 * last)

\* A growth factor 1 + r/100 of a return r quoted to two decimals has four
\* decimals, so twelve factors multiply to a number of 48 decimals. Whenever
\* 12/n is a whole number the annualized growth is that product, written to
\* radix 10000 with the least significant digit first: the double arithmetic
\* of the source differs from it by less than 1e-13, far less than the
\* hundredth the result is rounded to.
Radix == 10000

Limb(limbs, i) == IF i <= Len(limbs) THEN limbs[i] ELSE 0

\* limbs * m + carry for a small non-negative m
RECURSIVE MulSmall(_, _, _)
MulSmall(limbs, m, carry) ==
    IF limbs = <<>>
    THEN IF carry = 0 THEN <<>> ELSE <<carry % Radix>> \o MulSmall(<<>>, m, carry \div Radix)
    ELSE LET t == Head(limbs) * m + carry
         IN  <<t % Radix>> \o MulSmall(Tail(limbs), m, t \div Radix)

\* limbs * m^k
RECURSIVE TimesFactor(_, _, _)
TimesFactor(limbs, m, k) ==
    IF k = 0 THEN limbs ELSE TimesFactor(MulSmall(limbs, m, 0), m, k - 1)

\* the exponent without annualization: the plain cumulative growth
AnnualExponent_None(n_months) == 1

\* 12 / n_months, where it is a whole number
AnnualExponent(n_months) == 12 \div n_months

\* growth_factors.prod() ** k = the product of the k-th powers of the factors;
\* prod() skips a NaN entry, which is to multiply by 1.0000
RECURSIVE GrowthLimbs(_, _)
GrowthLimbs(monthly_yields, k) ==
    IF monthly_yields = <<>> THEN <<1>>
    ELSE LET rest == GrowthLimbs(SubSeq(monthly_yields, 1, Len(monthly_yields) - 1), k)
             last == monthly_yields[Len(monthly_yields)]
         IN  TimesFactor(rest, IF IsNaN(last) THEN Radix ELSE Radix + last, k)

\* the result cut to two decimals instead of rounded
RoundGrowth_Truncated(limbs) ==
    Limb(limbs, 12) + Radix * Limb(limbs, 13) - Radix

\* round((annualized_growth - 1) * 100, 2) of a growth of 48 decimals, in
\* hundredths of a percent: the digits from the 44th decimal on decide
RoundGrowth(limbs) ==
    Limb(limbs, 12) + Radix * Limb(limbs, 13)
        + (IF 2 * Limb(limbs, 11) >= Radix THEN 1 ELSE 0) - Radix

\* the calculator past its guard for the empty series
CompoundedValue(monthly_yields) ==
    LET n_months == Len(monthly_yields)
    IN  IF 12 % n_months = 0
        THEN RoundGrowth(GrowthLimbs(monthly_yields, AnnualExponent(n_months)))
        ELSE (Annualize(Prod(monthly_yields), n_months) - One + 50) \div 100

\* the calculator without its guard for the empty series: no growth, 0.0
calculate_compounded_yield_ZeroOnEmpty(monthly_yields) ==
    IF monthly_yields = <<>> THEN 0 ELSE CompoundedValue(monthly_yields)

calculate_compounded_yield(monthly_yields) ==
    IF monthly_yields = <<>> THEN NoneVal ELSE CompoundedValue(monthly_yields)

----------------------------------------------------------------------------
(* FindBetterService.calculate_period_yield                                *)

\* the coverage test asking for every month of the window
CoverageShort_Full(count, period_months) == count < period_months

\* the coverage test with <= for <: exactly 80% coverage refused
CoverageShort_Inclusive(count, period_months) == count <= (period_months * 8) \div 10

\* min_months = int(period_months * 0.8); len(fund_df) < min_months
CoverageShort(count, period_months) == count < (period_months * 8) \div 10

\* the date-range filter without its lower end
InRange_NoStart(report_date, start_date, selected_date) ==
    report_date <= selected_date

\* (fund_df['REPORT_DATE'] >= start_date) & (fund_df['REPORT_DATE'] <= selected_date)
InRange(report_date, start_date, selected_date) ==
    report_date >= start_date /\ report_date <= selected_date

\* the period yield with the records of an absent return dropped first
calculate_period_yield_DropNa(all_df, fund_id, period_months, selected_period) ==
    LET fund_df == SelectSeq(all_df.rows, LAMBDA r :
                       r["FUND_ID"] = fund_id /\ ~IsNaN(r["MONTHLY_YIELD"]))
        selected_date == to_datetime(selected_period)
        start_date == selected_date - (period_months - 1)
        in_range == SelectSeq(fund_df, LAMBDA r :
                        InRange(r["REPORT_DATE"], start_date, selected_date))
    IN  IF fund_df = <<>> THEN NoneVal
        ELSE IF CoverageShort(Len(in_range), period_months) THEN NoneVal
        ELSE IF "MONTHLY_YIELD" \notin all_df.columns THEN NoneVal
        ELSE calculate_compounded_yield(Column(in_range, "MONTHLY_YIELD"))

calculate_period_yield(all_df, fund_id, period_months, selected_period) ==
    LET fund_df == SelectSeq(all_df.rows, LAMBDA r : r["FUND_ID"] = fund_id)
        selected_date == to_datetime(selected_period)
        start_date == selected_date - (period_months - 1)
        in_range == SelectSeq(fund_df, LAMBDA r :
                        InRange(r["REPORT_DATE"], start_date, selected_date))
    IN  IF fund_df = <<>> THEN NoneVal
        ELSE IF CoverageShort(Len(in_range), period_months) THEN NoneVal
        ELSE IF "MONTHLY_YIELD" \notin all_df.columns THEN NoneVal
        ELSE calculate_compounded_yield(Column(in_range, "MONTHLY_YIELD"))

----------------------------------------------------------------------------
(* utils/formatters.py: calculate_trailing_1y_yield (app.py applies it to  *)
(* the rows of the selected period)                                        *)

\* "Only use if we have at least 6 months of data"
MinTrailingRecords == 6

\* the value of AVG_ANNUAL_YIELD_TRAILING_1YR for one fund: absent when the
\* fund has fewer than six records in the twelve months, or no yield
TrailingYear(all_df, fund_id, selected_period) ==
    LET selected_date == to_datetime(selected_period)
        start_date == selected_date - 11
        group == SelectSeq(all_df.rows, LAMBDA r :
                     /\ r["FUND_ID"] = fund_id
                     /\ r["REPORT_DATE"] >= start_date
                     /\ r["REPORT_DATE"] <= selected_date)
        compounded == calculate_compounded_yield(Column(group, "MONTHLY_YIELD"))
    IN  IF Len(group) >= MinTrailingRecords /\ compounded # NoneVal
        THEN compounded ELSE NaN

calculate_trailing_1y_yield(period_df, all_df, selected_period) ==
    DataFrame(period_df.columns \cup {"AVG_ANNUAL_YIELD_TRAILING_1YR"},
        [i \in 1..Len(period_df.rows) |->
            [c \in period_df.columns \cup {"AVG_ANNUAL_YIELD_TRAILING_1YR"} |->
                IF c = "AVG_ANNUAL_YIELD_TRAILING_1YR"
                THEN IF "MONTHLY_YIELD" \in all_df.columns
                     THEN TrailingYear(all_df, period_df.rows[i]["FUND_ID"],
                                       selected_period)
                     ELSE NaN
                ELSE period_df.rows[i][c]]])

----------------------------------------------------------------------------
(* FindBetterService.get_eligible_funds                                    *)

WithCalcYield(row, avg_yield) ==
    [c \in (DOMAIN row) \cup {"CALC_YIELD"} |->
        IF c = "CALC_YIELD" THEN avg_yield ELSE row[c]]

\* the classification filter alone: the user's fund stays in
EligibleRows_KeepUser(all_df, user_fund) ==
    LET classification == Get(user_fund, "FUND_CLASSIFICATION", "")
    IN  IF classification # ""
        THEN SelectSeq(all_df.rows,
                       LAMBDA r : r["FUND_CLASSIFICATION"] = classification)
        ELSE all_df.rows

\* the rows left after the classification filter and the exclusion of the
\* user's fund
EligibleRows(all_df, user_fund) ==
    LET classification == Get(user_fund, "FUND_CLASSIFICATION", "")
        same == IF classification # ""
                THEN SelectSeq(all_df.rows,
                               LAMBDA r : r["FUND_CLASSIFICATION"] = classification)
                ELSE all_df.rows
    IN  SelectSeq(same, LAMBDA r : r["FUND_ID"] # Get(user_fund, "FUND_ID", NoneVal))

RECURSIVE EligibleFunds(_, _, _, _, _)
EligibleFunds(all_df, eligible, fund_ids, period_months, selected_period) ==
    IF fund_ids = <<>> THEN <<>>
    ELSE LET front == EligibleFunds(all_df, eligible,
                                    SubSeq(fund_ids, 1, Len(fund_ids) - 1),
                                    period_months, selected_period)
             fund_id == fund_ids[Len(fund_ids)]
             avg_yield == calculate_period_yield(all_df, fund_id, period_months,
                                                 selected_period)
             fund_latest == SelectSeq(eligible, LAMBDA r :
                                r["FUND_ID"] = fund_id
                                /\ r["REPORT_PERIOD"] = selected_period)
         IN  IF avg_yield # NoneVal /\ fund_latest # <<>>
             THEN Append(front, WithCalcYield(fund_latest[1], avg_yield))
             ELSE front

get_eligible_funds(all_df, user_fund, period_months, selected_period) ==
    LET eligible == EligibleRows(all_df, user_fund)
        unique_fund_ids == Unique(Column(eligible, "FUND_ID"))
        eligible_funds == EligibleFunds(all_df, eligible, unique_fund_ids,
                                        period_months, selected_period)
    IN  \* pd.DataFrame([]) has no columns at all
        IF eligible_funds = <<>> THEN DataFrame({}, <<>>)
        ELSE DataFrame(all_df.columns \cup {"CALC_YIELD"}, eligible_funds)

----------------------------------------------------------------------------
(* DataFrame.sort_values(by, ascending): a stable sort                     *)

\* lexicographic order on the columns `by`, each ascending or descending
RECURSIVE Before(_, _, _, _)
Before(a, b, by, ascending) ==
    IF by = <<>> THEN FALSE
    ELSE LET x == a[Head(by)]
             y == b[Head(by)]
         IN  IF x = y THEN Before(a, b, Tail(by), Tail(ascending))
             ELSE IF Head(ascending) THEN x < y ELSE x > y

RECURSIVE sort_values(_, _, _)
sort_values(rows, by, ascending) ==
    IF rows = <<>> THEN <<>>
    ELSE LET front == sort_values(SubSeq(rows, 1, Len(rows) - 1), by, ascending)
             last == rows[Len(rows)]
             \* last goes behind every row it does not come strictly before
             keep == {i \in 0..Len(front) :
                        \A j \in (i + 1)..Len(front) :
                            Before(last, front[j], by, ascending)}
             at == CHOOSE i \in keep : \A j \in keep : i <= j
         IN  SubSeq(front, 1, at) \o <<last>> \o SubSeq(front, at + 1, Len(front))

\* the exposure filter without its lower side
Within_UpperOnly(rows, column, center, tolerance) ==
    SelectSeq(rows, LAMBDA r : Le(r[column], Plus(center, tolerance)))

\* the rows whose value in column lies in [center - tolerance, center + tolerance]
Within(rows, column, center, tolerance) ==
    SelectSeq(rows, LAMBDA r :
        /\ Ge(r[column], Minus(center, tolerance))
        /\ Le(r[column], Plus(center, tolerance)))

\* the unrestricted ranking without its second key
SortByYieldThenStd_YieldOnly(rows) == sort_values(rows, <<"CALC_YIELD">>, <<FALSE>>)

\* sort_values(['CALC_YIELD', 'STANDARD_DEVIATION'], ascending=[False, True])
SortByYieldThenStd(rows) ==
    sort_values(rows, <<"CALC_YIELD", "STANDARD_DEVIATION">>, <<FALSE, TRUE>>)

\* the similar-strategy ranking with the lowest yield first
SortByYield_Ascending(rows) == sort_values(rows, <<"CALC_YIELD">>, <<TRUE>>)

\* sort_values('CALC_YIELD', ascending=False)
SortByYield(rows) == sort_values(rows, <<"CALC_YIELD">>, <<FALSE>>)

----------------------------------------------------------------------------
(* The yield and risk gates shared by both matching strategies             *)

\* better[better['CALC_YIELD'] >= (user_yield + yield_threshold)]
YieldGate(rows, user_yield, yield_threshold) ==
    SelectSeq(rows, LAMBDA r : Ge(r["CALC_YIELD"], Plus(user_yield, yield_threshold)))

\* the risk gate with the threshold added instead of subtracted
RiskGate_Plus(rows, user_std, std_threshold) ==
    SelectSeq(rows, LAMBDA r :
        Le(r["STANDARD_DEVIATION"], Plus(user_std, std_threshold)))

\* better[better['STANDARD_DEVIATION'] <= (user_std - std_threshold)]
RiskGate(rows, user_std, std_threshold) ==
    SelectSeq(rows, LAMBDA r :
        Le(r["STANDARD_DEVIATION"], Minus(user_std, std_threshold)))

----------------------------------------------------------------------------
(* FindBetterService.find_unrestricted_better                              *)

\* user_fund.get('STANDARD_DEVIATION', 999)
DefaultUserStd == 99900

find_unrestricted_better(df, user_fund, user_yield, top_n, table, defaults) ==
    LET yield_threshold == get_threshold(table, defaults, "yield_threshold")
        std_threshold == get_threshold(table, defaults, "std_threshold")
        user_std == Get(user_fund, "STANDARD_DEVIATION", DefaultUserStd)
    IN  \* eligible_df['CALC_YIELD'] on a frame without that column
        IF "CALC_YIELD" \notin df.columns THEN Raise("KeyError")
        ELSE LET by_yield == YieldGate(df.rows, user_yield, yield_threshold)
                 better == IF "STANDARD_DEVIATION" \in df.columns
                           THEN RiskGate(by_yield, user_std, std_threshold)
                           ELSE by_yield
             IN  \* sort_values names STANDARD_DEVIATION whether or not it exists
                 IF "STANDARD_DEVIATION" \notin df.columns THEN Raise("KeyError")
                 ELSE DataFrame(df.columns,
                        Head_n(SortByYieldThenStd(better), top_n))

----------------------------------------------------------------------------
(* FindBetterService.find_similar_strategy_better                          *)

find_similar_strategy_better(df, user_fund, user_yield, top_n, table, defaults) ==
    LET yield_threshold == get_threshold(table, defaults, "yield_threshold")
        std_threshold == get_threshold(table, defaults, "std_threshold")
        stock_threshold == get_threshold(table, defaults, "stock_exposure_threshold")
        foreign_threshold == get_threshold(table, defaults, "foreign_exposure_threshold")
        currency_threshold == get_threshold(table, defaults, "currency_exposure_threshold")
        liquidity_threshold == get_threshold(table, defaults, "liquidity_threshold")
        user_std == Get(user_fund, "STANDARD_DEVIATION", DefaultUserStd)
        user_stock == Get(user_fund, "STOCK_MARKET_EXPOSURE", 0)
        user_foreign == Get(user_fund, "FOREIGN_EXPOSURE", 0)
        user_currency == Get(user_fund, "FOREIGN_CURRENCY_EXPOSURE", 0)
        user_liquidity == Get(user_fund, "LIQUID_ASSETS_PERCENT", 0)
    IN  IF "CALC_YIELD" \notin df.columns THEN Raise("KeyError")
        ELSE LET by_yield == YieldGate(df.rows, user_yield, yield_threshold)
                 by_std == IF "STANDARD_DEVIATION" \in df.columns
                           THEN RiskGate(by_yield, user_std, std_threshold)
                           ELSE by_yield
                 by_stock == IF "STOCK_MARKET_EXPOSURE" \in df.columns
                             THEN Within(by_std, "STOCK_MARKET_EXPOSURE",
                                         user_stock, stock_threshold)
                             ELSE by_std
                 by_foreign == IF "FOREIGN_EXPOSURE" \in df.columns
                               THEN Within(by_stock, "FOREIGN_EXPOSURE",
                                           user_foreign, foreign_threshold)
                               ELSE by_stock
                 by_currency == IF "FOREIGN_CURRENCY_EXPOSURE" \in df.columns
                                THEN Within(by_foreign, "FOREIGN_CURRENCY_EXPOSURE",
                                            user_currency, currency_threshold)
                                ELSE by_foreign
                 better == IF "LIQUID_ASSETS_PERCENT" \in df.columns
                           THEN Within(by_currency, "LIQUID_ASSETS_PERCENT",
                                       user_liquidity, liquidity_threshold)
                           ELSE by_currency
             IN  DataFrame(df.columns,
                    Head_n(SortByYield(better), top_n))

----------------------------------------------------------------------------
(* FindBetterService.update_threshold: the table afterwards and the        *)
(* boolean returned                                                        *)

update_threshold(table, key, value, updated_by) ==
    IF UpdateAccepted(table, key, value)
    THEN [table |-> [table EXCEPT ![key].value = value,
                                  ![key].updated_by = updated_by],
          result |-> TRUE]
    ELSE [table |-> table, result |-> FALSE]

----------------------------------------------------------------------------
(* The fund universe handed to the engine (services/data_service.py builds *)
(* it sorted by fund and date, one row per fund and period, REPORT_DATE    *)
(* derived from REPORT_PERIOD).                                            *)

Rec(id, class, period, monthly, std, stock, foreign, currency, liquid) ==
    [FUND_ID |-> id,
     FUND_CLASSIFICATION |-> class,
     REPORT_PERIOD |-> period,
     REPORT_DATE |-> to_datetime(period),
     MONTHLY_YIELD |-> monthly,
     STANDARD_DEVIATION |-> std,
     STOCK_MARKET_EXPOSURE |-> stock,
     FOREIGN_EXPOSURE |-> foreign,
     FOREIGN_CURRENCY_EXPOSURE |-> currency,
     LIQUID_ASSETS_PERCENT |-> liquid]

AllColumns == DOMAIN Rec(0, "", 202401, 0, 0, 0, 0, 0, 0)

ExposureColumns == {"STOCK_MARKET_EXPOSURE", "FOREIGN_EXPOSURE",
                    "FOREIGN_CURRENCY_EXPOSURE", "LIQUID_ASSETS_PERCENT"}

\* 1001 the usual reference; 1002 better and alike, its currency exposure
\* missing in 202312, when its return equals that of 1003; 1003 better,
\* fewer stocks, stops reporting before 202401; 1004 of another
\* classification, one monthly return missing; 1005 better but invested
\* differently, foreign exposure missing, reports from 202311; 1006 young,
\* unclassified, no risk figure; 1007 high yield, high risk
SampleRows ==
    << Rec(1001, "General", 202310, 100, 350, 4500, 3000, 2000, 1500),
       Rec(1001, "General", 202311, 100, 350, 4500, 3000, 2000, 1500),
       Rec(1001, "General", 202312, 120, 350, 4500, 3000, 2000, 1500),
       Rec(1001, "General", 202401, 100, 350, 4500, 3000, 2000, 1500),
       Rec(1002, "General", 202310, 101, 300, 4400, 3100, 2100, 1400),
       Rec(1002, "General", 202311, 102, 300, 4400, 3100, 2100, 1400),
       Rec(1002, "General", 202312, 190, 300, 4400, 3100, NaN, 1400),
       Rec(1002, "General", 202401, 103, 300, 4400, 3100, 2100, 1400),
       Rec(1003, "General", 202310, 200, 250, 3900, 2900, 1900, 1500),
       Rec(1003, "General", 202311, 210, 250, 3900, 2900, 1900, 1500),
       Rec(1003, "General", 202312, 190, 250, 3900, 2900, 1900, 1500),
       Rec(1004, "Conservative", 202310, 180, 150, 2000, 1500, 1000, 3000),
       Rec(1004, "Conservative", 202311, NaN, 150, 2000, 1500, 1000, 3000),
       Rec(1004, "Conservative", 202312, 170, 150, 2000, 1500, 1000, 3000),
       Rec(1004, "Conservative", 202401, 180, 150, 2000, 1500, 1000, 3000),
       Rec(1005, "General", 202311, 160, 320, 6000, NaN, 2000, 1500),
       Rec(1005, "General", 202312, 150, 320, 6000, NaN, 2000, 1500),
       Rec(1005, "General", 202401, 170, 320, 6000, NaN, 2000, 1500),
       Rec(1006, "", 202312, 50, NaN, 4500, 3000, 2000, 1500),
       Rec(1006, "", 202401, 60, NaN, 4500, 3000, 2000, 1500),
       Rec(1007, "General", 202310, 250, 500, 4500, 3000, 2000, 1500),
       Rec(1007, "General", 202311, 240, 500, 4500, 3000, 2000, 1500),
       Rec(1007, "General", 202312, 250, 500, 4500, 3000, 2000, 1500),
       Rec(1007, "General", 202401, 250, 500, 4500, 3000, 2000, 1500) >>

\* a frame of the given rows without the dropped columns
Frame(rows, dropped) ==
    DataFrame(AllColumns \ dropped,
              [i \in 1..Len(rows) |-> [c \in AllColumns \ dropped |-> rows[i][c]]])

\* the universes a query may run on: every column present, no risk column,
\* no exposure columns
Universes ==
    {Frame(SampleRows, dropped) :
        dropped \in {{}, {"STANDARD_DEVIATION"}, ExposureColumns}}

\* the anchor periods and window lengths of the queries
Anchors == {202312, 202401}
MaxWindow == 3
Windows == 1..MaxWindow

\* the result-size limits
MaxTopN == 2

\* the frame of one reporting period
PeriodFrame(df, period) ==
    DataFrame(df.columns, SelectSeq(df.rows, LAMBDA r : r["REPORT_PERIOD"] = period))

\* the rows of the frame for one reporting period
PeriodRows(df, period) ==
    {df.rows[i] : i \in {j \in 1..Len(df.rows) : df.rows[j]["REPORT_PERIOD"] = period}}

----------------------------------------------------------------------------
(* Inputs of the store operations                                          *)

\* values offered to update_threshold: below every minimum, the minimum,
\* the maximum of the yield threshold, above every maximum
UpdateValues == {-1, 0, 500, 2001}

\* update_threshold(key, value, updated_by=None)
UpdatedBy == {NoneVal}

\* the updates an administrator makes while queries run
MatchUpdates == { <<"yield_threshold", 200>>, <<"std_threshold", 40>>,
                  <<"stock_exposure_threshold", 50>>,
                  <<"liquidity_threshold", 0>> }

\* a later release of models/database.py with other defaults and bounds
NextRelease ==
    [InitialThresholds EXCEPT !["yield_threshold"].default = 20,
                              !["stock_exposure_threshold"].default = 300,
                              !["stock_exposure_threshold"].max = 1000]

Releases == {InitialThresholds, NextRelease}

NoQuery == [valid |-> FALSE]

\* no account, nothing drawn, the clock at its origin, an empty cache
\* directory
OutsideInit ==
    /\ users = [email \in {} |-> NoneVal]
    /\ secrets = [tokens |-> 0, passwords |-> 0]
    /\ clock = 0
    /\ cache = [key \in {} |-> NoneVal]

----------------------------------------------------------------------------
(* State machine                                                           *)

Init ==
    /\ DEFAULT_THRESHOLDS = InitialThresholds
    /\ db = [k \in {} |-> NoneVal]
    /\ service = "none"
    /\ query = NoQuery
    /\ eligible_df = DataFrame({}, <<>>)
    /\ ret = [op |-> "none"]
    /\ OutsideInit

\* FindBetterService(db_session): __init__ runs _init_default_settings
Construct ==
    /\ db' = _init_default_settings(db, DEFAULT_THRESHOLDS)
    /\ service' = "ready"
    /\ ret' = [op |-> "__init__"]
    /\ UNCHANGED <<outside, DEFAULT_THRESHOLDS, query, eligible_df>>

\* a new release replaces the code-defined table; the running service is gone
Deploy(release) ==
    /\ release # DEFAULT_THRESHOLDS
    /\ DEFAULT_THRESHOLDS' = release
    /\ service' = "none"
    /\ ret' = [op |-> "deploy"]
    /\ UNCHANGED <<outside, db, query, eligible_df>>

UpdateThreshold(key, value, updated_by) ==
    /\ service = "ready"
    /\ LET r == update_threshold(db, key, value, updated_by)
       IN  /\ db' = r.table
           /\ ret' = [op |-> "update_threshold", key |-> key, value |-> value,
                      result |-> r.result]
    /\ UNCHANGED <<outside, DEFAULT_THRESHOLDS, service, query, eligible_df>>

GetThreshold(key) ==
    /\ service = "ready"
    /\ ret' = [op |-> "get_threshold", key |-> key,
               result |-> get_threshold(db, DEFAULT_THRESHOLDS, key)]
    /\ UNCHANGED <<outside, DEFAULT_THRESHOLDS, db, service, query, eligible_df>>

GetAllThresholds ==
    /\ service = "ready"
    /\ ret' = [op |-> "get_all_thresholds", result |-> get_all_thresholds(db)]
    /\ UNCHANGED <<outside, DEFAULT_THRESHOLDS, db, service, query, eligible_df>>

\* one run of the Find Better page (ui/pages/find_better.py): the reference
\* fund's own trailing yield, then get_eligible_funds
GetEligibleFunds(all_df, user_fund, period_months, selected_period) ==
    /\ service = "ready"
    /\ ~query.valid
    /\ query' = [valid |-> TRUE, all_df |-> all_df, user_fund |-> user_fund,
                 period_months |-> period_months,
                 selected_period |-> selected_period,
                 own_yield |-> calculate_period_yield(all_df, user_fund["FUND_ID"],
                                   period_months, selected_period)]
    /\ eligible_df' = get_eligible_funds(all_df, user_fund, period_months,
                                         selected_period)
    /\ ret' = [op |-> "get_eligible_funds"]
    /\ UNCHANGED <<outside, DEFAULT_THRESHOLDS, db, service>>

\* the page run ends; its local values are dropped
EndQuery ==
    /\ query.valid
    /\ query' = NoQuery
    /\ eligible_df' = DataFrame({}, <<>>)
    /\ ret' = [op |-> "none"]
    /\ UNCHANGED <<outside, DEFAULT_THRESHOLDS, db, service>>

\* the reference yields a caller passes: the reference fund's own trailing
\* yield (ui/pages/find_better.py) or a fixed low figure (the tests)
LowYield == 90
UserYields(q) ==
    IF ~q.valid THEN {} ELSE {LowYield} \cup ({q.own_yield} \ {NoneVal})

FindUnrestrictedBetter(user_yield, top_n) ==
    /\ service = "ready"
    /\ query.valid
    /\ ret' = [op |-> "find_unrestricted_better", user_yield |-> user_yield,
               top_n |-> top_n,
               result |-> find_unrestricted_better(eligible_df, query.user_fund,
                              user_yield, top_n, db, DEFAULT_THRESHOLDS)]
    /\ UNCHANGED <<outside, DEFAULT_THRESHOLDS, db, service, query, eligible_df>>

FindSimilarStrategyBetter(user_yield, top_n) ==
    /\ service = "ready"
    /\ query.valid
    /\ ret' = [op |-> "find_similar_strategy_better", user_yield |-> user_yield,
               top_n |-> top_n,
               result |-> find_similar_strategy_better(eligible_df, query.user_fund,
                              user_yield, top_n, db, DEFAULT_THRESHOLDS)]
    /\ UNCHANGED <<outside, DEFAULT_THRESHOLDS, db, service, query, eligible_df>>

\* the threshold store on its own
NextStore ==
    \/ Construct
    \/ \E key \in AllKeys, value \in UpdateValues, by \in UpdatedBy :
            UpdateThreshold(key, value, by)
    \/ \E key \in AllKeys : GetThreshold(key)
    \/ GetAllThresholds

SpecStore == Init /\ [][NextStore]_vars

\* the threshold store across releases
NextUpgrade ==
    \/ NextStore
    \/ \E release \in Releases : Deploy(release)

SpecUpgrade == Init /\ [][NextUpgrade]_vars

\* queries, with an administrator changing thresholds in between
Next ==
    \/ Construct
    \/ \E u \in MatchUpdates, by \in UpdatedBy : UpdateThreshold(u[1], u[2], by)
    \/ \E all_df \in Universes, selected_period \in Anchors, period_months \in Windows :
            \E user_fund \in PeriodRows(all_df, selected_period) :
                GetEligibleFunds(all_df, user_fund, period_months, selected_period)
    \/ \E user_yield \in UserYields(query), top_n \in 1..MaxTopN :
            FindUnrestrictedBetter(user_yield, top_n)
    \/ \E user_yield \in UserYields(query), top_n \in 1..MaxTopN :
            FindSimilarStrategyBetter(user_yield, top_n)
    \/ EndQuery

Spec == Init /\ [][Next]_vars

\* the whole service: every store operation, and page runs for fund 1001 on
\* the full universe at the latest period with the longest window
FullUniverse == Frame(SampleRows, {})

NextService ==
    \/ NextStore
    \/ \E user_fund \in {r \in PeriodRows(FullUniverse, 202401) : r["FUND_ID"] = 1001} :
            GetEligibleFunds(FullUniverse, user_fund, MaxWindow, 202401)
    \/ \E user_yield \in UserYields(query), top_n \in 1..MaxTopN :
            FindUnrestrictedBetter(user_yield, top_n)
    \/ \E user_yield \in UserYields(query), top_n \in 1..MaxTopN :
            FindSimilarStrategyBetter(user_yield, top_n)
    \/ EndQuery

SpecService == Init /\ [][NextService]_vars

----------------------------------------------------------------------------
(* calculate_period_yield on its own: one fund with any of its monthly     *)
(* records missing, next to the records of another fund                    *)

YieldMonths == <<202308, 202309, 202310, 202311, 202312, 202401>>
YieldReturns == <<120, 100, NaN, 150, -50, 200>>

MaxYieldWindow == 5

\* fund 1 reports in the months of `present`; fund 2 reports every month
YieldRows(present) ==
    LET own == SelectSeq([i \in 1..Len(YieldMonths) |->
                            Rec(1, "General", YieldMonths[i], YieldReturns[i],
                                350, 4500, 3000, 2000, 1500)],
                         LAMBDA r : r["REPORT_PERIOD"] \in present)
        other == [i \in 1..Len(YieldMonths) |->
                    Rec(2, "General", YieldMonths[i], 300, 300, 4400, 3100, 2100, 1400)]
    IN  own \o other

\* fund 9 has no record at all
YieldCalls ==
    [valid : {FALSE},
     all_df : {Frame(YieldRows(present), {}) :
                  present \in SUBSET {YieldMonths[i] : i \in 1..Len(YieldMonths)}},
     fund_id : {1, 9},
     period_months : 1..MaxYieldWindow,
     selected_period : Anchors]

InitYield ==
    /\ DEFAULT_THRESHOLDS = InitialThresholds
    /\ db = _init_default_settings([k \in {} |-> NoneVal], InitialThresholds)
    /\ service = "ready"
    /\ query \in YieldCalls
    /\ eligible_df = DataFrame({}, <<>>)
    /\ ret = [op |-> "none"]
    /\ OutsideInit

CalculatePeriodYield ==
    /\ service = "ready"
    /\ ret.op = "none"
    /\ "fund_id" \in DOMAIN query
    /\ ret' = [op |-> "calculate_period_yield",
               result |-> calculate_period_yield(query.all_df, query.fund_id,
                              query.period_months, query.selected_period)]
    /\ UNCHANGED <<outside, DEFAULT_THRESHOLDS, db, service, query, eligible_df>>

\* app.py: the trailing one-year column of the rows of the selected period
CalculateTrailing1yYield ==
    /\ service = "ready"
    /\ ret.op = "none"
    /\ "fund_id" \in DOMAIN query
    /\ ret' = [op |-> "calculate_trailing_1y_yield",
               result |-> calculate_trailing_1y_yield(
                              PeriodFrame(query.all_df, query.selected_period),
                              query.all_df, query.selected_period)]
    /\ UNCHANGED <<outside, DEFAULT_THRESHOLDS, db, service, query, eligible_df>>

NextYield ==
    \/ CalculatePeriodYield
    \/ CalculateTrailing1yYield
    \/ /\ ret.op = "none"
       /\ "fund_id" \in DOMAIN query
       /\ \E user_fund \in PeriodRows(query.all_df, query.selected_period) :
              GetEligibleFunds(query.all_df, user_fund, query.period_months,
                               query.selected_period)

SpecYield == InitYield /\ [][NextYield]_vars

----------------------------------------------------------------------------
(* Threshold store: claims                                                 *)

\* the step is a call update_threshold(key, value)
IsUpdate(key) == ret'.op = "update_threshold" /\ ret'.key = key

\* C1: update_threshold(key, value) returns failure and leaves the whole
\* store unchanged (no value, bound, default or key set modified, no key
\* created) whenever the key is not in the store, or value < min or
\* value > max for that key.
C1_RejectedUpdateChangesNothing ==
    [][\A key \in AllKeys :
          (/\ IsUpdate(key)
           /\ \/ key \notin DOMAIN db
              \/ ret'.value < db[key].min_value
              \/ ret'.value > db[key].max_value)
          => (ret'.result = FALSE /\ db' = db)]_vars

\* an update above the maximum of an existing key has just been refused
C1_Witness ==
    /\ ret.op = "update_threshold"
    /\ ret.key \in DOMAIN db
    /\ ret.value > db[ret.key].max_value
    /\ ret.result = FALSE

\* C2: in every state reachable from an initialized store by update_threshold,
\* get_threshold, get_all_thresholds and matching calls, each stored value v
\* satisfies min <= v <= max for its key.
C2_ValuesWithinBounds ==
    service = "ready" =>
        \A key \in DOMAIN db :
            /\ db[key].min_value <= db[key].value
            /\ db[key].value <= db[key].max_value

\* a matching call has run on a store whose yield threshold was moved to its
\* maximum
C2_Witness ==
    /\ ret.op = "find_similar_strategy_better"
    /\ "yield_threshold" \in DOMAIN db
    /\ db["yield_threshold"].value = db["yield_threshold"].max_value
    /\ db["yield_threshold"].value # db["yield_threshold"].default_value

\* C7: when the code-defined default of a key changes, the next
\* initialization resets to the new default every setting whose stored value
\* still equals the previously recorded default.
C7_UncustomizedFollowsNewDefault ==
    [][ret'.op = "__init__" =>
          \A key \in (DOMAIN db) \cap (DOMAIN DEFAULT_THRESHOLDS) :
              db[key].value = db[key].default_value
                  => db'[key].value = DEFAULT_THRESHOLDS[key].default]_vars

\* C8: for an existing key and min <= value <= max (the bounds included),
\* update_threshold returns success; get_threshold(key) and
\* get_all_thresholds()[key].value then equal that value, the values of the
\* other keys are unchanged, and no step other than a successful update of
\* a key changes what get_threshold returns for it.
C8_AcceptedUpdateIsVisible ==
    [][\A key \in DOMAIN db :
          /\ (/\ IsUpdate(key)
              /\ db[key].min_value <= ret'.value
              /\ ret'.value <= db[key].max_value)
             => /\ ret'.result = TRUE
                /\ get_threshold(db', DEFAULT_THRESHOLDS', key) = ret'.value
                /\ get_all_thresholds(db')[key].value = ret'.value
                /\ \A other \in (DOMAIN db) \ {key} :
                       /\ other \in DOMAIN db'
                       /\ db'[other].value = db[other].value
          /\ ~(IsUpdate(key) /\ ret'.result = TRUE)
             => /\ key \in DOMAIN db'
                /\ get_threshold(db', DEFAULT_THRESHOLDS', key)
                       = get_threshold(db, DEFAULT_THRESHOLDS, key)]_vars

\* an update to exactly the maximum of a key has just succeeded and changed
\* the stored value
C8_Witness ==
    /\ ret.op = "update_threshold"
    /\ ret.result = TRUE
    /\ ret.key \in DOMAIN db
    /\ ret.value = db[ret.key].max_value
    /\ ret.value # db[ret.key].default_value
    /\ get_threshold(db, DEFAULT_THRESHOLDS, ret.key) = ret.value

----------------------------------------------------------------------------
(* Trailing window: claims                                                 *)

\* the reporting period one month before period (YYYYMM)
PreviousPeriod(period) == IF period % 100 = 1 THEN period - 89 ELSE period - 1

\* the reporting periods of the window of w months ending at period
RECURSIVE WindowPeriods(_, _)
WindowPeriods(period, w) ==
    IF w = 0 THEN {}
    ELSE {period} \cup WindowPeriods(PreviousPeriod(period), w - 1)

\* the number of records of the fund inside the window
RecordsInWindow(all_df, fund_id, w, period) ==
    Cardinality({i \in 1..Len(all_df.rows) :
                    /\ all_df.rows[i]["FUND_ID"] = fund_id
                    /\ all_df.rows[i]["REPORT_PERIOD"] \in WindowPeriods(period, w)})

\* floor(0.8 * w)
RequiredRecords(w) == (4 * w) \div 5

\* C6 as stated: calculate_period_yield returns None when the number of the
\* fund's records inside the window is below floor(0.8 * w), and a computed
\* value when it is floor(0.8 * w) or more.
C6_ComputableFromEightyPercent ==
    ret.op = "calculate_period_yield" =>
        LET n == RecordsInWindow(query.all_df, query.fund_id,
                                 query.period_months, query.selected_period)
        IN  /\ n < RequiredRecords(query.period_months) => ret.result = NoneVal
            /\ n >= RequiredRecords(query.period_months) => ret.result # NoneVal

\* C6 as amended: None below floor(0.8 * w) records; a computed value with
\* floor(0.8 * w) records or more, provided there is at least one record in
\* the window (a window of one month needs floor(0.8) = 0 records, and with
\* none the compounded yield of the empty series is None).
C6_ComputableFromEightyPercentNonEmpty ==
    ret.op = "calculate_period_yield" =>
        LET n == RecordsInWindow(query.all_df, query.fund_id,
                                 query.period_months, query.selected_period)
        IN  /\ n < RequiredRecords(query.period_months) => ret.result = NoneVal
            /\ (n >= RequiredRecords(query.period_months) /\ n >= 1)
                   => ret.result # NoneVal
            /\ n = 0 => ret.result = NoneVal

\* a window with gaps, covered at exactly floor(0.8 * w), was computed
C6_Witness ==
    /\ ret.op = "calculate_period_yield"
    /\ RecordsInWindow(query.all_df, query.fund_id, query.period_months,
                       query.selected_period) = RequiredRecords(query.period_months)
    /\ RequiredRecords(query.period_months) < query.period_months
    /\ RequiredRecords(query.period_months) >= 1
    /\ ret.result # NoneVal

----------------------------------------------------------------------------
(* Eligibility filter: claims                                              *)

FundIds(rows) == {rows[i]["FUND_ID"] : i \in 1..Len(rows)}

\* the fund has enough records in the window for a trailing yield
Computable(all_df, fund_id, w, period) ==
    /\ RecordsInWindow(all_df, fund_id, w, period) >= RequiredRecords(w)
    /\ RecordsInWindow(all_df, fund_id, w, period) >= 1

----------------------------------------------------------------------------
(* Matching strategies: claims                                             *)

Abs(x) == IF x < 0 THEN -x ELSE x

\* the value the store holds for a threshold
Stored(key) == db[key].value

\* C3: every candidate returned by find_unrestricted_better has
\* yield >= reference yield + yield_threshold and standard deviation <=
\* reference standard deviation - std_threshold, the thresholds being those
\* the store holds at the time of the call.
C3_UnrestrictedGate ==
    (ret.op = "find_unrestricted_better" /\ ret.result.raised = "") =>
        \A i \in 1..Len(ret.result.rows) :
            LET r == ret.result.rows[i]
            IN  /\ r["CALC_YIELD"] >= ret.user_yield + Stored("yield_threshold")
                /\ r["STANDARD_DEVIATION"] # NaN
                /\ query.user_fund["STANDARD_DEVIATION"] # NaN
                /\ r["STANDARD_DEVIATION"]
                       <= query.user_fund["STANDARD_DEVIATION"] - Stored("std_threshold")

\* candidates were returned under a standard-deviation threshold an
\* administrator raised above zero
C3_Witness ==
    /\ ret.op = "find_unrestricted_better"
    /\ ret.result.rows # <<>>
    /\ Stored("std_threshold") > 0

C10_MatchingNeverFails ==
    ret.op \in {"find_unrestricted_better", "find_similar_strategy_better"}
        => ret.result.raised = ""

\* the settings key holding the tolerance of an exposure column
ToleranceKey(column) ==
    CASE column = "STOCK_MARKET_EXPOSURE" -> "stock_exposure_threshold"
      [] column = "FOREIGN_EXPOSURE" -> "foreign_exposure_threshold"
      [] column = "FOREIGN_CURRENCY_EXPOSURE" -> "currency_exposure_threshold"
      [] column = "LIQUID_ASSETS_PERCENT" -> "liquidity_threshold"

\* the candidate passes the yield gate and, where the data has a risk
\* column, the risk gate of the call recorded in ret
PassesYieldRisk(r) ==
    /\ Ge(r["CALC_YIELD"], Plus(ret.user_yield, Stored("yield_threshold")))
    /\ "STANDARD_DEVIATION" \in DOMAIN r =>
           Le(r["STANDARD_DEVIATION"],
              Minus(query.user_fund["STANDARD_DEVIATION"], Stored("std_threshold")))

\* C11: in find_similar_strategy_better an exposure field missing on the
\* reference fund or on the candidate skips that dimension only: a candidate
\* that passes the yield/risk gate and is within tolerance on every
\* dimension known on both sides is not excluded (it is returned whenever
\* the result has room left under top_n).
C11_MissingExposureSkipsDimension ==
    (ret.op = "find_similar_strategy_better" /\ ret.result.raised = "") =>
        \A i \in 1..Len(eligible_df.rows) :
            LET r == eligible_df.rows[i]
                u == query.user_fund
            IN  (/\ PassesYieldRisk(r)
                 /\ \A d \in ExposureColumns \cap DOMAIN r :
                        (r[d] # NaN /\ u[d] # NaN)
                            => Abs(r[d] - u[d]) <= Stored(ToleranceKey(d))
                 /\ Len(ret.result.rows) < ret.top_n)
                => r["FUND_ID"] \in FundIds(ret.result.rows)

----------------------------------------------------------------------------
(* services/data_service.py: the trailing yields computed when the data is *)
(* loaded.  A value is the plain compounded return of the fund's last n    *)
(* records, absent when the fund has fewer than n records so far or one of *)
(* the monthly returns is missing.                                         *)

\* round((product - 1) * 100, 2), in hundredths of a percent
_compound_yields(yields) == (Prod(yields) - One + 50) \div 100

\* the trailing value of row i over n records (rows sorted by fund and date)
TrailingValue(rows, i, n) ==
    LET seen == {j \in 1..i : rows[j]["FUND_ID"] = rows[i]["FUND_ID"]}
        yields == [m \in 1..n |-> rows[i - n + m]["MONTHLY_YIELD"]]
    IN  IF Cardinality(seen) < n THEN NaN
        ELSE IF \E m \in 1..n : IsNaN(yields[m]) THEN NaN
        ELSE _compound_yields(yields)

TrailingColumns == {"TRAILING_3M_YIELD", "TRAILING_6M_YIELD", "TRAILING_1Y_YIELD"}

_compute_trailing_yields(df) ==
    IF ~({"FUND_ID", "MONTHLY_YIELD", "REPORT_DATE"} \subseteq df.columns) THEN df
    ELSE DataFrame(df.columns \cup TrailingColumns,
            [i \in 1..Len(df.rows) |->
                [c \in df.columns \cup TrailingColumns |->
                    CASE c = "TRAILING_3M_YIELD" -> TrailingValue(df.rows, i, 3)
                      [] c = "TRAILING_6M_YIELD" -> TrailingValue(df.rows, i, 6)
                      [] c = "TRAILING_1Y_YIELD" -> TrailingValue(df.rows, i, 12)
                      [] OTHER -> df.rows[i][c]]])

----------------------------------------------------------------------------
(* FindBetterService.find_in_strategy_funds                                *)

\* yield_col_map.get(yield_period, 'TRAILING_1Y_YIELD')
yield_col_map(yield_period) ==
    CASE yield_period = "1M" -> "MONTHLY_YIELD"
      [] yield_period = "3M" -> "TRAILING_3M_YIELD"
      [] yield_period = "6M" -> "TRAILING_6M_YIELD"
      [] yield_period = "YTD" -> "YEAR_TO_DATE_YIELD"
      [] yield_period = "1Y" -> "TRAILING_1Y_YIELD"
      [] yield_period = "3Y" -> "AVG_ANNUAL_YIELD_TRAILING_3YRS"
      [] yield_period = "5Y" -> "AVG_ANNUAL_YIELD_TRAILING_5YRS"
      [] OTHER -> "TRAILING_1Y_YIELD"

\* period_months_map.get(yield_period, 12)
period_months_map(yield_period) ==
    CASE yield_period = "1M" -> 1
      [] yield_period = "3M" -> 3
      [] yield_period = "6M" -> 6
      [] yield_period = "1Y" -> 12
      [] yield_period = "3Y" -> 36
      [] yield_period = "5Y" -> 60
      [] OTHER -> 12

\* the exposure filter that lets a missing value through
WithinNotNull_Defaulted(rows, column, target, threshold) ==
    SelectSeq(rows, LAMBDA r :
        \/ IsNaN(r[column])
        \/ /\ Ge(r[column], Minus(target, threshold))
           /\ Le(r[column], Plus(target, threshold)))

\* notna() & (value >= target - threshold) & (value <= target + threshold)
WithinNotNull(rows, column, target, threshold) ==
    SelectSeq(rows, LAMBDA r :
        /\ ~IsNaN(r[column])
        /\ Ge(r[column], Minus(target, threshold))
        /\ Le(r[column], Plus(target, threshold)))

\* the exposure filter of one dimension: applied when the target is
\* supplied and the data has the column
ExposureGate(rows, columns, target_exposures, name, column, threshold) ==
    IF name \in DOMAIN target_exposures /\ target_exposures[name] # NoneVal
    THEN IF column \in columns
         THEN WithinNotNull(rows, column, target_exposures[name], threshold)
         ELSE rows
    ELSE rows

\* the dict returned for one qualifying fund (the keys whose columns the
\* frames of this model carry)
FundData(row, yield_col, yield_period) ==
    [fund_id |-> Get(row, "FUND_ID", NoneVal),
     classification |-> Get(row, "FUND_CLASSIFICATION", ""),
     yield_value |-> Get(row, yield_col, NoneVal),
     yield_period |-> yield_period,
     monthly_yield |-> Get(row, "MONTHLY_YIELD", NoneVal),
     std_dev |-> Get(row, "STANDARD_DEVIATION", NoneVal),
     stock_exposure |-> Get(row, "STOCK_MARKET_EXPOSURE", NoneVal),
     foreign_exposure |-> Get(row, "FOREIGN_EXPOSURE", NoneVal),
     currency_exposure |-> Get(row, "FOREIGN_CURRENCY_EXPOSURE", NoneVal),
     liquid_assets |-> Get(row, "LIQUID_ASSETS_PERCENT", NoneVal)]

\* candidates: the copy of the period frame narrowed to the sub-product, with
\* CALC_YIELD added when the precomputed column cannot be used
Candidates(all_df, period_df, sub_product, report_period, yield_period) ==
    LET of_product == IF sub_product # ""
                      THEN SelectSeq(period_df.rows,
                               LAMBDA r : r["FUND_CLASSIFICATION"] = sub_product)
                      ELSE period_df.rows
        mapped_col == yield_col_map(yield_period)
        compute == \/ mapped_col \notin period_df.columns
                   \/ \A i \in 1..Len(of_product) : IsNaN(of_product[i][mapped_col])
        period_months == period_months_map(yield_period)
        calc_yield(fid) ==
            LET y == calculate_period_yield(all_df, fid, period_months, report_period)
            IN  IF y = NoneVal THEN NaN ELSE y
        candidates == IF compute
                      THEN [i \in 1..Len(of_product) |->
                               WithCalcYield(of_product[i],
                                             calc_yield(of_product[i]["FUND_ID"]))]
                      ELSE of_product
        columns == IF compute THEN period_df.columns \cup {"CALC_YIELD"}
                   ELSE period_df.columns
        yield_col == IF compute THEN "CALC_YIELD" ELSE mapped_col
    IN  [rows |-> candidates, columns |-> columns, yield_col |-> yield_col]

\* the caller's frame if the column were added to it and not to a copy
CallerFrame_Aliased(period_df, sub_product, with_yield) ==
    IF sub_product = "" THEN DataFrame(with_yield.columns, with_yield.rows)
    ELSE period_df

\* candidates = period_df.copy(): what the method adds and filters is its
\* own copy, the caller's frame is after the call what it was before
CallerFrame(period_df, sub_product, with_yield) == period_df

\* the thresholds always read from the store, whatever the call passes
ThresholdInUse_StoreOnly(override, table, defaults, key) ==
    get_threshold(table, defaults, key)

\* `x if x is not None else self.get_threshold(key)`
ThresholdInUse(override, table, defaults, key) ==
    IF override # NoneVal THEN override ELSE get_threshold(table, defaults, key)

find_in_strategy_funds(all_df, period_df, fund_id, product, sub_product, report_period, target_std, target_yield, yield_period, target_exposures, risk_return_threshold, exposures_threshold, table, defaults) ==
    LET yield_threshold == ThresholdInUse(risk_return_threshold, table, defaults,
                                          "yield_threshold")
        std_threshold == ThresholdInUse(risk_return_threshold, table, defaults,
                                        "std_threshold")
        stock_threshold == ThresholdInUse(exposures_threshold, table, defaults,
                                          "stock_exposure_threshold")
        foreign_threshold == ThresholdInUse(exposures_threshold, table, defaults,
                                            "foreign_exposure_threshold")
        currency_threshold == ThresholdInUse(exposures_threshold, table, defaults,
                                             "currency_exposure_threshold")
        with_yield == Candidates(all_df, period_df, sub_product, report_period,
                                 yield_period)
        candidates == with_yield.rows
        columns == with_yield.columns
        yield_col == with_yield.yield_col
        valid == SelectSeq(candidates, LAMBDA r : ~IsNaN(r[yield_col]))
        by_yield == SelectSeq(valid, LAMBDA r :
                        Ge(r[yield_col], Plus(target_yield, yield_threshold)))
        by_std == IF "STANDARD_DEVIATION" \in columns
                  THEN SelectSeq(by_yield, LAMBDA r :
                           /\ ~IsNaN(r["STANDARD_DEVIATION"])
                           /\ Le(r["STANDARD_DEVIATION"], Minus(target_std, std_threshold)))
                  ELSE by_yield
        by_equity == ExposureGate(by_std, columns, target_exposures, "equity",
                                  "STOCK_MARKET_EXPOSURE", stock_threshold)
        by_foreign == ExposureGate(by_equity, columns, target_exposures, "foreign",
                                   "FOREIGN_EXPOSURE", foreign_threshold)
        by_currency == ExposureGate(by_foreign, columns, target_exposures, "currency",
                                    "FOREIGN_CURRENCY_EXPOSURE", currency_threshold)
        result_funds == [i \in 1..Len(by_currency) |->
                            FundData(by_currency[i], yield_col, yield_period)]
    IN  [funds |-> result_funds,
         report_period |-> report_period,
         count |-> Len(result_funds),
         yield_period |-> yield_period,
         target_yield |-> target_yield,
         target_std |-> target_std,
         target_exposures |-> target_exposures,
         thresholds |-> [yield |-> yield_threshold,
                         std |-> std_threshold,
                         stock |-> stock_threshold,
                         foreign |-> foreign_threshold,
                         currency |-> currency_threshold]]

----------------------------------------------------------------------------
(* The in-strategy search: inputs, action, specification                   *)

\* the loaded data with its trailing columns, the same without a risk
\* column, and data that never went through the trailing computation
StrategyUniverses ==
    {_compute_trailing_yields(FullUniverse),
     _compute_trailing_yields(Frame(SampleRows, {"STANDARD_DEVIATION"})),
     FullUniverse}

YieldPeriods == {"1M", "3M", "6M"}
SubProducts == {"", "General"}
TargetStds == {350}
TargetYields == {90}
NoExposures == [name \in {} |-> NoneVal]
TargetExposures ==
    {NoExposures,
     [equity |-> 4500, foreign |-> 3000, currency |-> 2000],
     [equity |-> 4500, foreign |-> NoneVal]}
RiskReturnThresholds == {NoneVal, 20}
ExposuresThresholds == {NoneVal, 1000}

FindInStrategyFunds(all_df, sub_product, report_period, target_std, target_yield, yield_period, target_exposures, risk_return_threshold, exposures_threshold) ==
    /\ service = "ready"
    /\ ~query.valid
    /\ query' = [valid |-> TRUE,
                 all_df |-> all_df,
                 period_df |-> CallerFrame(PeriodFrame(all_df, report_period),
                                  sub_product,
                                  Candidates(all_df, PeriodFrame(all_df, report_period),
                                      sub_product, report_period, yield_period)),
                 sub_product |-> sub_product,
                 risk_return_threshold |-> risk_return_threshold,
                 exposures_threshold |-> exposures_threshold]
    /\ ret' = [op |-> "find_in_strategy_funds",
               result |-> find_in_strategy_funds(all_df,
                              PeriodFrame(all_df, report_period), NoneVal, "",
                              sub_product, report_period, target_std, target_yield,
                              yield_period, target_exposures, risk_return_threshold,
                              exposures_threshold, db, DEFAULT_THRESHOLDS)]
    /\ UNCHANGED <<outside, DEFAULT_THRESHOLDS, db, service, eligible_df>>

NextStrategy ==
    \/ Construct
    \/ \E update \in MatchUpdates : UpdateThreshold(update[1], update[2], NoneVal)
    \/ \E all_df \in StrategyUniverses, sub_product \in SubProducts,
          report_period \in Anchors, target_std \in TargetStds,
          target_yield \in TargetYields, yield_period \in YieldPeriods,
          target_exposures \in TargetExposures,
          risk_return_threshold \in RiskReturnThresholds,
          exposures_threshold \in ExposuresThresholds :
            FindInStrategyFunds(all_df, sub_product, report_period, target_std,
                                target_yield, yield_period, target_exposures,
                                risk_return_threshold, exposures_threshold)
    \/ EndQuery

SpecStrategy == Init /\ [][NextStrategy]_vars

----------------------------------------------------------------------------
(* In-strategy search: claims                                              *)

ExposureNames == {"equity", "foreign", "currency"}

\* the column, the returned field and the tolerance of a target exposure
ExposureColumn(name) ==
    CASE name = "equity" -> "STOCK_MARKET_EXPOSURE"
      [] name = "foreign" -> "FOREIGN_EXPOSURE"
      [] name = "currency" -> "FOREIGN_CURRENCY_EXPOSURE"

ExposureField(fund, name) ==
    CASE name = "equity" -> fund.stock_exposure
      [] name = "foreign" -> fund.foreign_exposure
      [] name = "currency" -> fund.currency_exposure

ExposureTolerance(thresholds, name) ==
    CASE name = "equity" -> thresholds.stock
      [] name = "foreign" -> thresholds.foreign
      [] name = "currency" -> thresholds.currency

\* the target exposures the caller supplied
Supplied(target_exposures) ==
    {name \in ExposureNames \cap DOMAIN target_exposures :
        target_exposures[name] # NoneVal}

Absent(x) == x = NaN \/ x = NoneVal

\* the period rows a search looks at: those of the sub-product, if one is given
Searched ==
    IF query.sub_product # ""
    THEN SelectSeq(query.period_df.rows,
                   LAMBDA r : r["FUND_CLASSIFICATION"] = query.sub_product)
    ELSE query.period_df.rows

\* the row passes the risk gate and the exposure gates of the search
\* recorded in ret, on every compared column the data carries
PassesStrategyGates(r) ==
    LET res == ret.result
    IN  /\ "STANDARD_DEVIATION" \in DOMAIN r =>
               /\ ~Absent(r["STANDARD_DEVIATION"])
               /\ r["STANDARD_DEVIATION"] <= res.target_std - res.thresholds.std
        /\ \A name \in Supplied(res.target_exposures) :
               ExposureColumn(name) \in DOMAIN r =>
                   /\ ~Absent(r[ExposureColumn(name)])
                   /\ Abs(r[ExposureColumn(name)] - res.target_exposures[name])
                          <= ExposureTolerance(res.thresholds, name)

\* C12: in find_in_strategy_funds a fund whose precomputed trailing value
\* for the requested window is absent at the report period (or whose window
\* has no precomputed column) gets its yield from the general
\* trailing-window computation: when that yield is computable and passes
\* the gates, the fund is returned with it; it is never dropped merely
\* because its precomputed value is absent.
C12_AbsentPrecomputedFallsBack ==
    ret.op = "find_in_strategy_funds" =>
        \A i \in 1..Len(Searched) :
            LET r == Searched[i]
                res == ret.result
                col == yield_col_map(res.yield_period)
                y == calculate_period_yield(query.all_df, r["FUND_ID"],
                         period_months_map(res.yield_period), res.report_period)
            IN  (/\ col \notin DOMAIN r \/ Absent(r[col])
                 /\ y # NoneVal
                 /\ y >= res.target_yield + res.thresholds.yield
                 /\ PassesStrategyGates(r))
                => \E k \in 1..Len(res.funds) :
                       /\ res.funds[k].fund_id = r["FUND_ID"]
                       /\ res.funds[k].yield_value = y

----------------------------------------------------------------------------
(* Ranking and truncation: claims                                          *)

\* a comes strictly before b in the unrestricted ranking: higher yield, or
\* the same yield and a lower standard deviation
RanksBefore(a, b) ==
    \/ a["CALC_YIELD"] > b["CALC_YIELD"]
    \/ /\ a["CALC_YIELD"] = b["CALC_YIELD"]
       /\ a["STANDARD_DEVIATION"] < b["STANDARD_DEVIATION"]

Min(a, b) == IF a < b THEN a ELSE b

\* the eligible candidates passing the yield/risk gate of the call in ret
Qualifying == SelectSeq(eligible_df.rows, PassesYieldRisk)

\* C14: find_unrestricted_better returns at most n candidates, ordered by
\* yield descending and, among equal yields, by standard deviation
\* ascending; they are the first n of the qualifying candidates in that
\* order: no qualifying candidate left out ranks before a returned one, and
\* all qualifying candidates are returned when there are at most n.
C14_UnrestrictedTopN ==
    (ret.op = "find_unrestricted_better" /\ ret.result.raised = "") =>
        LET rows == ret.result.rows
        IN  /\ Len(rows) = Min(ret.top_n, Len(Qualifying))
            /\ \A i \in 1..Len(rows) :
                   \E k \in 1..Len(Qualifying) : Qualifying[k] = rows[i]
            /\ \A i, j \in 1..Len(rows) : i < j => ~RanksBefore(rows[j], rows[i])
            /\ \A k \in 1..Len(Qualifying) :
                   Qualifying[k]["FUND_ID"] \notin FundIds(rows)
                       => \A i \in 1..Len(rows) : ~RanksBefore(Qualifying[k], rows[i])

\* more candidates qualified than were asked for, two of them with the same
\* yield and different standard deviations, one of the two returned
C14_Witness ==
    /\ ret.op = "find_unrestricted_better"
    /\ ret.result.raised = ""
    /\ Len(Qualifying) > ret.top_n
    /\ \E i \in 1..Len(ret.result.rows), k \in 1..Len(Qualifying) :
           /\ Qualifying[k]["CALC_YIELD"] = ret.result.rows[i]["CALC_YIELD"]
           /\ Qualifying[k]["STANDARD_DEVIATION"]
                  > ret.result.rows[i]["STANDARD_DEVIATION"]

\* the candidate is within tolerance of the reference fund on every
\* exposure column the data carries
PassesExposures(r) ==
    \A d \in ExposureColumns \cap DOMAIN r :
        /\ Ge(r[d], Minus(query.user_fund[d], Stored(ToleranceKey(d))))
        /\ Le(r[d], Plus(query.user_fund[d], Stored(ToleranceKey(d))))

\* the eligible candidates passing every gate of the similar strategy
QualifyingSimilar ==
    SelectSeq(eligible_df.rows, LAMBDA r : PassesYieldRisk(r) /\ PassesExposures(r))

\* C15: find_similar_strategy_better returns at most n candidates ordered
\* by yield descending only, and they are the n highest-yield candidates
\* among those passing all gates (all of them when at most n pass).
C15_SimilarTopN ==
    (ret.op = "find_similar_strategy_better" /\ ret.result.raised = "") =>
        LET rows == ret.result.rows
        IN  /\ Len(rows) = Min(ret.top_n, Len(QualifyingSimilar))
            /\ \A i \in 1..Len(rows) :
                   \E k \in 1..Len(QualifyingSimilar) : QualifyingSimilar[k] = rows[i]
            /\ \A i, j \in 1..Len(rows) :
                   i < j => rows[i]["CALC_YIELD"] >= rows[j]["CALC_YIELD"]
            /\ \A k \in 1..Len(QualifyingSimilar) :
                   QualifyingSimilar[k]["FUND_ID"] \notin FundIds(rows)
                       => \A i \in 1..Len(rows) :
                              QualifyingSimilar[k]["CALC_YIELD"] <= rows[i]["CALC_YIELD"]

\* more candidates passed every gate than were asked for, and a candidate
\* with a lower yield was left out
C15_Witness ==
    /\ ret.op = "find_similar_strategy_better"
    /\ ret.result.raised = ""
    /\ Len(QualifyingSimilar) > ret.top_n
    /\ \E i \in 1..Len(ret.result.rows), k \in 1..Len(QualifyingSimilar) :
           QualifyingSimilar[k]["CALC_YIELD"] < ret.result.rows[i]["CALC_YIELD"]

----------------------------------------------------------------------------
(* Window selection: claims                                                *)

\* the record with another monthly return
Bump(r, by) ==
    IF by = 0 THEN r
    ELSE [r EXCEPT !["MONTHLY_YIELD"] = IF IsNaN(@) THEN by ELSE @ + by]

Bumps == {0, 7}
Others == {"same", "none", "changed"}

\* the frame with the fund's records inside the window untouched, its
\* records outside the window kept only for the periods of `keep` and their
\* returns changed by `by`, and the records of other funds left as they
\* are, removed or changed
Variant(all_df, fund_id, w, period, keep, by, others) ==
    LET Inside(r) == /\ r["FUND_ID"] = fund_id
                     /\ r["REPORT_PERIOD"] \in WindowPeriods(period, w)
        kept == SelectSeq(all_df.rows, LAMBDA r :
                    \/ Inside(r)
                    \/ r["FUND_ID"] = fund_id /\ r["REPORT_PERIOD"] \in keep
                    \/ r["FUND_ID"] # fund_id /\ others # "none")
    IN  DataFrame(all_df.columns,
            [i \in 1..Len(kept) |->
                IF Inside(kept[i]) THEN kept[i]
                ELSE IF kept[i]["FUND_ID"] = fund_id THEN Bump(kept[i], by)
                ELSE IF others = "changed" THEN Bump(kept[i], 7)
                ELSE kept[i]])

\* C16: calculate_period_yield(fund, w, p) uses exactly the fund's records
\* whose reporting period lies in [p - (w-1) months, p]: removing or changing
\* records of the same fund outside that range, or records of any other
\* fund, never changes the result (adding is the same statement read from
\* the smaller frame, every subset of the fund's months being a frame).
C16_OnlyWindowRecordsMatter ==
    ret.op = "calculate_period_yield" =>
        \A keep \in SUBSET {YieldMonths[i] : i \in 1..Len(YieldMonths)},
           by \in Bumps, others \in Others :
            calculate_period_yield(
                Variant(query.all_df, query.fund_id, query.period_months,
                        query.selected_period, keep, by, others),
                query.fund_id, query.period_months, query.selected_period)
            = ret.result

\* a yield was computed for a fund that also has a record with a return
\* outside the window
C16_Witness ==
    /\ ret.op = "calculate_period_yield"
    /\ ret.result # NoneVal
    /\ \E i \in 1..Len(query.all_df.rows) :
           LET r == query.all_df.rows[i]
           IN  /\ r["FUND_ID"] = query.fund_id
               /\ r["REPORT_PERIOD"] \notin
                      WindowPeriods(query.selected_period, query.period_months)
               /\ ~IsNaN(r["MONTHLY_YIELD"])

----------------------------------------------------------------------------
(* The empty series: claims                                                *)

\* the monthly returns of the fund's records within w months up to period
SeriesInWindow(all_df, fund_id, w, period) ==
    Column(SelectSeq(all_df.rows, LAMBDA r :
               /\ r["FUND_ID"] = fund_id
               /\ r["REPORT_PERIOD"] \in WindowPeriods(period, w)),
           "MONTHLY_YIELD")

\* C17: calculate_compounded_yield of an empty sequence is None, never a
\* number, and every caller treats that as excluding the fund:
\* calculate_period_yield returns None for a fund whose window holds no
\* record, get_eligible_funds returns no such fund, and
\* calculate_trailing_1y_yield gives a value only to a fund with a
\* non-empty series (of at least six records), the value computed from it.
C17_EmptySeriesIsNotComputable ==
    /\ calculate_compounded_yield(<<>>) = NoneVal
    /\ ret.op = "calculate_period_yield" =>
           (SeriesInWindow(query.all_df, query.fund_id, query.period_months,
                           query.selected_period) = <<>>
               => ret.result = NoneVal)
    /\ ret.op = "get_eligible_funds" =>
           \A i \in 1..Len(query.all_df.rows) :
               SeriesInWindow(query.all_df, query.all_df.rows[i]["FUND_ID"],
                              query.period_months, query.selected_period) = <<>>
                   => query.all_df.rows[i]["FUND_ID"] \notin FundIds(eligible_df.rows)
    /\ ret.op = "calculate_trailing_1y_yield" =>
           \A i \in 1..Len(ret.result.rows) :
               LET r == ret.result.rows[i]
                   series == SeriesInWindow(query.all_df, r["FUND_ID"], 12,
                                            query.selected_period)
               IN  ~Absent(r["AVG_ANNUAL_YIELD_TRAILING_1YR"]) =>
                       /\ Len(series) >= MinTrailingRecords
                       /\ r["AVG_ANNUAL_YIELD_TRAILING_1YR"]
                              = calculate_compounded_yield(series)

\* the one-month window of a fund that reports in other months only: the
\* coverage test lets the empty series through to the calculator
C17_Witness ==
    /\ ret.op = "calculate_period_yield"
    /\ query.period_months = 1
    /\ \E i \in 1..Len(query.all_df.rows) :
           query.all_df.rows[i]["FUND_ID"] = query.fund_id
    /\ SeriesInWindow(query.all_df, query.fund_id, query.period_months,
                      query.selected_period) = <<>>
    /\ ret.result = NoneVal

----------------------------------------------------------------------------
(* utils/formatters.py: calculate_compounded_yield on constant series      *)

\* monthly returns up to 3.00% either way, in hundredths of a percent
MaxRate == 300
Rates == (0 - MaxRate)..MaxRate

\* how often the constant return is repeated
Repetitions == {1, 2, 3, 4, 6, 12}

\* pd.Series([r] * n)
ConstantSeries(r, n) == [i \in 1..n |-> r]

CompoundCalls == {[valid |-> FALSE, r |-> r, n |-> n] : r \in Rates, n \in Repetitions}

InitCompound ==
    /\ DEFAULT_THRESHOLDS = InitialThresholds
    /\ db = _init_default_settings([k \in {} |-> NoneVal], InitialThresholds)
    /\ service = "ready"
    /\ query \in CompoundCalls
    /\ eligible_df = DataFrame({}, <<>>)
    /\ ret = [op |-> "none"]
    /\ OutsideInit

CalculateCompoundedYield ==
    /\ ret.op = "none"
    /\ "r" \in DOMAIN query
    /\ ret' = [op |-> "calculate_compounded_yield",
               result |-> calculate_compounded_yield(ConstantSeries(query.r, query.n))]
    /\ UNCHANGED <<outside, DEFAULT_THRESHOLDS, db, service, query, eligible_df>>

NextCompound == CalculateCompoundedYield

SpecCompound == InitCompound /\ [][NextCompound]_vars

\* (1 + r/100)^12 to its 48 decimals
Power12(r) == TimesFactor(<<1>>, Radix + r, 12)

\* C18: a monthly return r repeated 12 times compounds to
\* ((1 + r/100)^12 - 1) * 100 rounded to the nearest hundredth of a percent:
\* 12.68 for r = 1.0, 6.17 for r = 0.5, -11.36 for r = -1.0.
C18_TwelveConstantMonths ==
    (ret.op = "calculate_compounded_yield" /\ query.n = 12) =>
        LET power == Power12(query.r)
            below == Limb(power, 12) + Radix * Limb(power, 13)
            nearest == IF 2 * Limb(power, 11) >= Radix THEN below + 1 ELSE below
        IN  /\ ret.result = nearest - Radix
            /\ query.r = 100 => ret.result = 1268
            /\ query.r = 50 => ret.result = 617
            /\ query.r = 0 - 100 => ret.result = 0 - 1136

\* twelve months at 0.5%: 6.1678 is rounded up to 6.17
C18_Witness ==
    /\ ret.op = "calculate_compounded_yield"
    /\ query.n = 12
    /\ query.r = 50
    /\ ret.result = 617

\* C19: the 6-month constant series at r annualizes to the result of the
\* 12-month constant series at r.
C19_SixMonthsEqualTwelve ==
    (ret.op = "calculate_compounded_yield" /\ query.n = 6) =>
        ret.result = calculate_compounded_yield(ConstantSeries(query.r, 12))

\* six months at 1%: 6.15% over the half year, 12.68% annualized
C19_Witness ==
    /\ ret.op = "calculate_compounded_yield"
    /\ query.n = 6
    /\ query.r = 100
    /\ ret.result = 1268
    /\ ret.result = calculate_compounded_yield(ConstantSeries(100, 12))

----------------------------------------------------------------------------
(* The system_settings table row by row: the service reaches a setting     *)
(* through query(SystemSettings).filter(key == key).first()                *)

\* DEFAULT_THRESHOLDS.items(): the keys in the order the table is written
KeyOrder ==
    <<"yield_threshold", "std_threshold", "stock_exposure_threshold",
      "foreign_exposure_threshold", "currency_exposure_threshold",
      "liquidity_threshold">>

\* .filter(SystemSettings.key == key).first(): 0 stands for None
FirstIndex(rows, key) ==
    IF \E i \in 1..Len(rows) : rows[i].key = key
    THEN CHOOSE i \in 1..Len(rows) :
            /\ rows[i].key = key
            /\ \A j \in 1..(i - 1) : rows[j].key # key
    ELSE 0

\* the table as the service sees it: for each key the first row that has it
Table(rows) ==
    [k \in {rows[i].key : i \in 1..Len(rows)} |-> rows[FirstIndex(rows, k)]]

\* the loop without its lookup: a row is added for every key
RECURSIVE _init_default_settings_rows_AlwaysAdd(_, _, _)
_init_default_settings_rows_AlwaysAdd(rows, defaults, keys) ==
    IF keys = <<>> THEN rows
    ELSE _init_default_settings_rows_AlwaysAdd(
             Append(rows, [key |-> Head(keys)] @@ NewSetting(defaults[Head(keys)])),
             defaults, Tail(keys))

\* _init_default_settings, one key of DEFAULT_THRESHOLDS after the other
RECURSIVE _init_default_settings_rows(_, _, _)
_init_default_settings_rows(rows, defaults, keys) ==
    IF keys = <<>> THEN rows
    ELSE LET key == Head(keys)
             existing == FirstIndex(rows, key)
             next == IF existing = 0
                     THEN Append(rows, [key |-> key] @@ NewSetting(defaults[key]))
                     ELSE [rows EXCEPT ![existing] =
                              RefreshSetting(rows[existing], defaults[key])]
         IN  _init_default_settings_rows(next, defaults, Tail(keys))

\* update_threshold on the first row of the key
update_threshold_rows(rows, key, value, updated_by) ==
    IF UpdateAccepted(Table(rows), key, value)
    THEN [table |-> [rows EXCEPT ![FirstIndex(rows, key)].value = value,
                                 ![FirstIndex(rows, key)].updated_by = updated_by],
          result |-> TRUE]
    ELSE [table |-> rows, result |-> FALSE]

\* get_all_thresholds over query(SystemSettings).all(): result[s.key] is
\* written row after row, the last row of a key stays
get_all_thresholds_rows(rows) ==
    get_all_thresholds(
        [k \in {rows[i].key : i \in 1..Len(rows)} |->
            rows[CHOOSE i \in 1..Len(rows) :
                    /\ rows[i].key = k
                    /\ \A j \in (i + 1)..Len(rows) : rows[j].key # k]])

\* the table a first construction leaves behind
SeededRows == _init_default_settings_rows(<<>>, InitialThresholds, KeyOrder)

\* stores that lack keys: a new database, and databases last opened by a
\* release that did not define every threshold yet
LackingStores ==
    { SelectSeq(SeededRows, LAMBDA row : row.key \in present) :
        present \in { {},
                      KnownKeys \ {"liquidity_threshold"},
                      {"yield_threshold", "std_threshold"} } }

InitRows ==
    /\ DEFAULT_THRESHOLDS = InitialThresholds
    /\ db \in LackingStores
    /\ service = "none"
    /\ query = NoQuery
    /\ eligible_df = DataFrame({}, <<>>)
    /\ ret = [op |-> "none"]
    /\ OutsideInit

ConstructRows ==
    /\ db' = _init_default_settings_rows(db, DEFAULT_THRESHOLDS, KeyOrder)
    /\ service' = "ready"
    /\ ret' = [op |-> "__init__"]
    /\ UNCHANGED <<outside, DEFAULT_THRESHOLDS, query, eligible_df>>

UpdateThresholdRows(key, value, updated_by) ==
    /\ service = "ready"
    /\ LET r == update_threshold_rows(db, key, value, updated_by)
       IN  /\ db' = r.table
           /\ ret' = [op |-> "update_threshold", key |-> key, value |-> value,
                      result |-> r.result]
    /\ UNCHANGED <<outside, DEFAULT_THRESHOLDS, service, query, eligible_df>>

GetThresholdRows(key) ==
    /\ service = "ready"
    /\ ret' = [op |-> "get_threshold", key |-> key,
               result |-> get_threshold(Table(db), DEFAULT_THRESHOLDS, key)]
    /\ UNCHANGED <<outside, DEFAULT_THRESHOLDS, db, service, query, eligible_df>>

GetAllThresholdsRows ==
    /\ service = "ready"
    /\ ret' = [op |-> "get_all_thresholds",
               result |-> get_all_thresholds_rows(db)]
    /\ UNCHANGED <<outside, DEFAULT_THRESHOLDS, db, service, query, eligible_df>>

NextRows ==
    \/ ConstructRows
    \/ \E u \in MatchUpdates \cup {<<UnknownKey, 0>>, <<"yield_threshold", 2001>>},
          by \in UpdatedBy :
            UpdateThresholdRows(u[1], u[2], by)
    \/ \E key \in AllKeys : GetThresholdRows(key)
    \/ GetAllThresholdsRows
    \/ \E release \in Releases : Deploy(release)

SpecRows == InitRows /\ [][NextRows]_vars

\* the row of a key, if the table has one
HasRow(rows, key) == \E i \in 1..Len(rows) : rows[i].key = key

\* C20: constructing the service on a store that lacks threshold keys leaves
\* every key of the code-defined table with its min, max and default, and
\* with value = default where the key was lacking; no operation removes a
\* key, and no key ever has more than one setting.
C20_SettingsSeededUniqueAndKept ==
    /\ [](\A i, j \in 1..Len(db) : db[i].key = db[j].key => i = j)
    /\ [][/\ \A i \in 1..Len(db) : HasRow(db', db[i].key)
          /\ ret'.op = "__init__" =>
                \A key \in DOMAIN DEFAULT_THRESHOLDS :
                    \E i \in 1..Len(db') :
                        /\ db'[i].key = key
                        /\ db'[i].min_value = DEFAULT_THRESHOLDS[key].min
                        /\ db'[i].max_value = DEFAULT_THRESHOLDS[key].max
                        /\ db'[i].default_value = DEFAULT_THRESHOLDS[key].default
                        /\ ~HasRow(db, key) =>
                               db'[i].value = DEFAULT_THRESHOLDS[key].default]_vars

\* the service constructed on a new database: the six settings, each at its
\* default
C20_Witness ==
    /\ ret.op = "__init__"
    /\ service = "ready"
    /\ Len(db) = Len(KeyOrder)
    /\ \A key \in KnownKeys :
           /\ HasRow(db, key)
           /\ Table(db)[key].value = DEFAULT_THRESHOLDS[key].default
           /\ Table(db)[key].min_value = DEFAULT_THRESHOLDS[key].min
           /\ Table(db)[key].max_value = DEFAULT_THRESHOLDS[key].max
           /\ Table(db)[key].default_value = DEFAULT_THRESHOLDS[key].default

----------------------------------------------------------------------------
(* Threshold store: initialization over an existing store, unknown keys    *)

\* C21: an initialization of a store that already holds a key changes no
\* stored value, in particular none that differs from the previously
\* recorded default: what update_threshold wrote is what get_threshold
\* returns after every later construction of the service.
C21_InitKeepsStoredValue ==
    [][ret'.op = "__init__" =>
          \A key \in DOMAIN db :
              db[key].value # NoneVal =>
                  /\ key \in DOMAIN db'
                  /\ db'[key].value = db[key].value
                  /\ get_threshold(db', DEFAULT_THRESHOLDS', key) = db[key].value]_vars

\* the service constructed by the later release on a store whose yield
\* threshold an administrator had moved to 5.0: the recorded default is the
\* new one, the value is still 5.0
C21_Witness ==
    /\ ret.op = "__init__"
    /\ DEFAULT_THRESHOLDS = NextRelease
    /\ "yield_threshold" \in DOMAIN db
    /\ db["yield_threshold"].default_value = NextRelease["yield_threshold"].default
    /\ db["yield_threshold"].value = 500
    /\ get_threshold(db, DEFAULT_THRESHOLDS, "yield_threshold") = 500

\* C22: get_threshold of a key that is neither stored nor defined by the
\* code returns 0.0, and creates nothing; of a stored key it returns the
\* stored value.
C22_UnknownKeyReadsZero ==
    [][\A key \in AllKeys :
          (ret'.op = "get_threshold" /\ ret'.key = key) =>
              /\ db' = db
              /\ (key \notin DOMAIN db /\ key \notin DOMAIN DEFAULT_THRESHOLDS)
                     => ret'.result = 0
              /\ (key \in DOMAIN db /\ db[key].value # NoneVal)
                     => ret'.result = db[key].value]_vars

\* get_threshold('fake_threshold') has returned 0.0 and the store still has
\* no such key
C22_Witness ==
    /\ ret.op = "get_threshold"
    /\ ret.key = UnknownKey
    /\ ret.result = 0
    /\ UnknownKey \notin DOMAIN db
    /\ DOMAIN db = KnownKeys

----------------------------------------------------------------------------
(* In-strategy search: thresholds passed with the call                     *)

\* states of the threshold store: as seeded, and after each of the updates
\* an administrator makes
StoreStates ==
    LET seeded == _init_default_settings([k \in {} |-> NoneVal], InitialThresholds)
    IN  {seeded} \cup
        {update_threshold(seeded, u[1], u[2], NoneVal).table : u \in MatchUpdates}

\* the search recorded in query and ret, run on another state of the store
SearchOn(table) ==
    find_in_strategy_funds(query.all_df, query.period_df, NoneVal, "",
        query.sub_product, ret.result.report_period, ret.result.target_std,
        ret.result.target_yield, ret.result.yield_period,
        ret.result.target_exposures, query.risk_return_threshold,
        query.exposures_threshold, table, DEFAULT_THRESHOLDS)

\* C23: with risk_return_threshold and exposures_threshold both passed,
\* find_in_strategy_funds gates on the passed values and returns the same
\* result on every state of the threshold store; a threshold that is not
\* passed is the value the store holds.
C23_PassedThresholdsReplaceStore ==
    ret.op = "find_in_strategy_funds" =>
        LET used == ret.result.thresholds
            risk == query.risk_return_threshold
            exposures == query.exposures_threshold
        IN  /\ risk # NoneVal => (used.yield = risk /\ used.std = risk)
            /\ exposures # NoneVal =>
                   (used.stock = exposures /\ used.foreign = exposures
                        /\ used.currency = exposures)
            /\ (risk # NoneVal /\ exposures # NoneVal) =>
                   \A table \in StoreStates : SearchOn(table) = ret.result
            /\ risk = NoneVal =>
                   /\ used.yield = Stored("yield_threshold")
                   /\ used.std = Stored("std_threshold")
            /\ exposures = NoneVal =>
                   /\ used.stock = Stored("stock_exposure_threshold")
                   /\ used.foreign = Stored("foreign_exposure_threshold")
                   /\ used.currency = Stored("currency_exposure_threshold")

\* a search with both thresholds passed, on a store whose yield threshold is
\* 2.0 and whose stock tolerance is 0.5: funds are returned that the stored
\* thresholds would refuse
C23_Witness ==
    /\ ret.op = "find_in_strategy_funds"
    /\ query.risk_return_threshold # NoneVal
    /\ query.exposures_threshold # NoneVal
    /\ Stored("yield_threshold") = 200
    /\ Stored("stock_exposure_threshold") = 50
    /\ Supplied(ret.result.target_exposures) # {}
    /\ ret.result.count > 0
    /\ ret.result.thresholds.yield = query.risk_return_threshold
    /\ ret.result.thresholds.stock = query.exposures_threshold
    /\ find_in_strategy_funds(query.all_df, query.period_df, NoneVal, "",
           query.sub_product, ret.result.report_period, ret.result.target_std,
           ret.result.target_yield, ret.result.yield_period,
           ret.result.target_exposures, NoneVal, NoneVal, db,
           DEFAULT_THRESHOLDS).count < ret.result.count

----------------------------------------------------------------------------
(* update_threshold step by step: several callers, each with a session of  *)
(* its own, on the one system_settings table                               *)

MaxSessions == 2
Sessions == 1..MaxSessions

\* what the callers pass: a key of the store or an unknown one, a value
\* below the minimum, two values inside the bounds, one above the maximum
ConcurrentKeys == {"yield_threshold", UnknownKey}
ConcurrentValues == {-1, 200, 500, 501}

Idle == [pc |-> "idle"]

\* the bounds check on the row the caller loaded, without the upper bound
WithinLoaded_MinOnly(setting, value) ==
    ~(setting.min_value # NoneVal /\ value < setting.min_value)

\* the bounds check of update_threshold on the row the caller loaded
WithinLoaded(setting, value) ==
    /\ ~(setting.min_value # NoneVal /\ value < setting.min_value)
    /\ ~(setting.max_value # NoneVal /\ value > setting.max_value)

\* setting.value = value; setting.updated_by = updated_by; self.db.commit():
\* the UPDATE carries the attributes that differ from what was loaded
CommitSetting(table, key, setting, value, updated_by) ==
    IF value = setting.value /\ updated_by = setting.updated_by THEN table
    ELSE [table EXCEPT ![key].value =
                           IF value = setting.value THEN @ ELSE value,
                       ![key].updated_by =
                           IF updated_by = setting.updated_by THEN @ ELSE updated_by]

InitConcurrent ==
    /\ DEFAULT_THRESHOLDS = InitialThresholds
    /\ db = _init_default_settings([k \in {} |-> NoneVal], InitialThresholds)
    /\ service = "ready"
    /\ query = [valid |-> FALSE,
                calls |-> [p \in Sessions |-> Idle],
                succeeded |-> {}]
    /\ eligible_df = DataFrame({}, <<>>)
    /\ ret = [op |-> "none"]
    /\ OutsideInit

\* setting = query(SystemSettings).filter(key == key).first();
\* `if not setting: return False`
QuerySetting(p, key, value) ==
    /\ query.calls[p].pc = "idle"
    /\ query' = [query EXCEPT !.calls[p] =
                    IF key \in DOMAIN db
                    THEN [pc |-> "check", key |-> key, value |-> value,
                          setting |-> db[key]]
                    ELSE [pc |-> "return", key |-> key, value |-> value,
                          result |-> FALSE]]
    /\ UNCHANGED <<outside, DEFAULT_THRESHOLDS, db, service, eligible_df, ret>>

\* the two range tests on the loaded row
Validate(p) ==
    /\ query.calls[p].pc = "check"
    /\ LET call == query.calls[p]
       IN  query' = [query EXCEPT !.calls[p] =
                        IF WithinLoaded(call.setting, call.value)
                        THEN [call EXCEPT !.pc = "write"]
                        ELSE [pc |-> "return", key |-> call.key,
                              value |-> call.value, result |-> FALSE]]
    /\ UNCHANGED <<outside, DEFAULT_THRESHOLDS, db, service, eligible_df, ret>>

\* the assignments and the commit
Commit(p) ==
    /\ query.calls[p].pc = "write"
    /\ LET call == query.calls[p]
       IN  /\ db' = CommitSetting(db, call.key, call.setting, call.value, NoneVal)
           /\ query' = [query EXCEPT !.calls[p] =
                           [pc |-> "return", key |-> call.key,
                            value |-> call.value, result |-> TRUE]]
    /\ UNCHANGED <<outside, DEFAULT_THRESHOLDS, service, eligible_df, ret>>

\* return True / return False
Return(p) ==
    /\ query.calls[p].pc = "return"
    /\ LET call == query.calls[p]
       IN  /\ ret' = [op |-> "update_threshold", key |-> call.key,
                      value |-> call.value, result |-> call.result]
           /\ query' = [query EXCEPT
                           !.calls[p] = Idle,
                           !.succeeded = IF call.result
                                         THEN @ \cup {<<call.key, call.value>>}
                                         ELSE @]
    /\ UNCHANGED <<outside, DEFAULT_THRESHOLDS, db, service, eligible_df>>

NextConcurrent ==
    \/ \E p \in Sessions, key \in ConcurrentKeys, value \in ConcurrentValues :
            QuerySetting(p, key, value)
    \/ \E p \in Sessions : Validate(p)
    \/ \E p \in Sessions : Commit(p)
    \/ \E p \in Sessions : Return(p)

SpecConcurrent == InitConcurrent /\ [][NextConcurrent]_vars

\* the value the store was seeded with
InitialValue(key) == InitialThresholds[key].default

\* the calls that succeeded: those that returned True, and those that have
\* committed and are about to
Succeeded ==
    query.succeeded \cup
    {<<query.calls[p].key, query.calls[p].value>> :
        p \in {s \in Sessions : /\ query.calls[s].pc = "return"
                                /\ query.calls[s].result}}

\* C24: however concurrent update_threshold calls interleave their read,
\* check and write, every stored value lies within [min, max] and is the
\* initial value or the value of a call that succeeded; a call that fails
\* changes nothing in the store.
C24_InterleavedUpdatesKeepBounds ==
    /\ [](\A key \in DOMAIN db :
             /\ db[key].min_value <= db[key].value
             /\ db[key].value <= db[key].max_value
             /\ \/ db[key].value = InitialValue(key)
                \/ <<key, db[key].value>> \in Succeeded)
    /\ [][db' # db =>
             \E p \in Sessions :
                 /\ query.calls[p].pc = "write"
                 /\ query'.calls[p].pc = "return"
                 /\ query'.calls[p].result = TRUE]_vars
    /\ [][\A p \in Sessions :
             (query'.calls[p].pc = "return" /\ query'.calls[p].result = FALSE
                  /\ query.calls[p].pc # "return") => db' = db]_vars

\* two calls on the yield threshold overlapped: one has returned success
\* with 2.0, the other loaded the row before that write, passed its check and
\* is about to write 5.0 over it
C24_Witness ==
    /\ ret.op = "update_threshold"
    /\ ret.result = TRUE
    /\ ret.key = "yield_threshold"
    /\ db["yield_threshold"].value = ret.value
    /\ \E p \in Sessions :
           /\ query.calls[p].pc = "write"
           /\ query.calls[p].key = "yield_threshold"
           /\ query.calls[p].setting.value # db["yield_threshold"].value
           /\ query.calls[p].value # ret.value

----------------------------------------------------------------------------
(* The five query methods side by side, on one store                       *)

\* a call of calculate_period_yield on its own
CalculatePeriodYieldCall(all_df, fund_id, period_months, selected_period) ==
    /\ service = "ready"
    /\ ~query.valid
    /\ query' = [valid |-> TRUE, all_df |-> all_df, fund_id |-> fund_id,
                 period_months |-> period_months,
                 selected_period |-> selected_period]
    /\ ret' = [op |-> "calculate_period_yield",
               result |-> calculate_period_yield(all_df, fund_id, period_months,
                                                 selected_period)]
    /\ UNCHANGED <<outside, DEFAULT_THRESHOLDS, db, service, eligible_df>>

NextQueries ==
    \/ Construct
    \/ \E u \in {<<"yield_threshold", 200>>, <<"stock_exposure_threshold", 50>>} :
            UpdateThreshold(u[1], u[2], NoneVal)
    \/ \E fund_id \in FundIds(FullUniverse.rows), selected_period \in Anchors,
          period_months \in Windows :
            CalculatePeriodYieldCall(FullUniverse, fund_id, period_months,
                                     selected_period)
    \/ \E selected_period \in Anchors, period_months \in Windows :
            \E user_fund \in PeriodRows(FullUniverse, selected_period) :
                GetEligibleFunds(FullUniverse, user_fund, period_months,
                                 selected_period)
    \/ /\ "user_fund" \in DOMAIN query
       /\ \E user_yield \in UserYields(query), top_n \in 1..MaxTopN :
              FindUnrestrictedBetter(user_yield, top_n)
    \/ /\ "user_fund" \in DOMAIN query
       /\ \E user_yield \in UserYields(query), top_n \in 1..MaxTopN :
              FindSimilarStrategyBetter(user_yield, top_n)
    \/ \E all_df \in {_compute_trailing_yields(FullUniverse), FullUniverse},
          sub_product \in SubProducts, report_period \in Anchors,
          target_std \in TargetStds, target_yield \in TargetYields,
          yield_period \in YieldPeriods,
          risk_return_threshold \in RiskReturnThresholds :
            FindInStrategyFunds(all_df, sub_product, report_period, target_std,
                                target_yield, yield_period,
                                [equity |-> 4500, foreign |-> 3000, currency |-> 2000],
                                risk_return_threshold, NoneVal)
    \/ EndQuery

SpecQueries == Init /\ [][NextQueries]_vars

QueryOps ==
    {"calculate_period_yield", "get_eligible_funds", "find_unrestricted_better",
     "find_similar_strategy_better", "find_in_strategy_funds"}

----------------------------------------------------------------------------
(* services/auth_service.py: AuthService over the users table              *)
(* (models/database.py: User).  Of a row the model keeps password_hash,    *)
(* must_change_password, is_active, session_token and session_expires.     *)
(* A NULL session_token is the empty string, which no caller's token can   *)
(* match: validate_session returns before the lookup on an empty token.    *)

SESSION_DURATION_DAYS == 30
HoursPerDay == 24

\* secrets.token_urlsafe(32) and generate_temp_password(): the values drawn
\* are random; the n-th draw is the n-th entry, no value is drawn twice
SessionTokens == <<"tok-1", "tok-2", "tok-3", "tok-4">>
TempPasswords == <<"Kp3XvR8TqZ1x", "m7UYt2NWb9Lc", "Qe5PHn4ADs6j", "zU8GFa1BXo3g">>
MaxTokens == 2
MaxPasswords == 2

\* bcrypt.gensalt()
Salts == {"salt-a", "salt-b"}

NoToken == ""

\* an optional argument: not passed, or passed with a value
NotGiven == <<>>
Given(x) == <<x>>

\* bcrypt.hashpw(password, salt): a salted digest, one password per digest
hash_password(password, salt) == [salt |-> salt, digest_of |-> password]

\* bcrypt.checkpw(password, password_hash)
verify_password(password, password_hash) == password_hash.digest_of = password

\* authenticate without its is_active test
authenticate_NoActiveCheck(table, email, password) ==
    IF email \notin DOMAIN table
    THEN [success |-> FALSE, user |-> "", message |-> "Invalid email or password"]
    ELSE IF ~verify_password(password, table[email].password_hash)
    THEN [success |-> FALSE, user |-> "", message |-> "Invalid email or password"]
    ELSE [success |-> TRUE, user |-> email, message |-> "Login successful"]

\* (success, user, message); the user returned is named by its email, "" is
\* None.  A row made by the service always has a password_hash.
authenticate(table, email, password) ==
    IF email \notin DOMAIN table
    THEN [success |-> FALSE, user |-> "", message |-> "Invalid email or password"]
    ELSE IF ~table[email].is_active
    THEN [success |-> FALSE, user |-> "", message |-> "Account is deactivated"]
    ELSE IF ~verify_password(password, table[email].password_hash)
    THEN [success |-> FALSE, user |-> "", message |-> "Invalid email or password"]
    ELSE [success |-> TRUE, user |-> email, message |-> "Login successful"]

\* len(new_password) < 8
TooShort(new_password) == Len(new_password) < 8

change_password(table, email, new_password, salt) ==
    IF TooShort(new_password) THEN [table |-> table, result |-> FALSE]
    ELSE [table |-> [table EXCEPT
                        ![email].password_hash = hash_password(new_password, salt),
                        ![email].must_change_password = FALSE],
          result |-> TRUE]

\* create_user(email, name, role, password): the row added, and the password
\* returned; drawn is the temporary password generate_temp_password() gives
create_user(email, password, drawn, salt) ==
    LET temp_password == IF password = NotGiven \/ password = Given("")
                         THEN drawn ELSE password[1]
    IN  [user |-> [password_hash |-> hash_password(temp_password, salt),
                   must_change_password |-> (password = NotGiven),
                   is_active |-> TRUE,
                   session_token |-> NoToken,
                   session_expires |-> NoneVal],
         temp_password |-> temp_password]

deactivate_user(table, email) == [table EXCEPT ![email].is_active = FALSE]

reset_password(table, email, drawn, salt) ==
    [table EXCEPT ![email].password_hash = hash_password(drawn, salt),
                  ![email].must_change_password = TRUE]

create_session(table, email, token, now) ==
    [table EXCEPT ![email].session_token = token,
                  ![email].session_expires = now + SESSION_DURATION_DAYS * HoursPerDay]

\* query(User).filter(User.session_token == token).first(): tokens are drawn
\* once, at most one row holds one
UserOfToken(table, token) ==
    IF \E email \in DOMAIN table : table[email].session_token = token
    THEN CHOOSE email \in DOMAIN table : table[email].session_token = token
    ELSE ""

\* validate_session without its expiry test
validate_session_NoExpiry(table, token, now) ==
    IF token = "" THEN [table |-> table, result |-> ""]
    ELSE LET user == UserOfToken(table, token)
         IN  IF user = "" THEN [table |-> table, result |-> ""]
             ELSE IF ~table[user].is_active THEN [table |-> table, result |-> ""]
             ELSE [table |-> table, result |-> user]

validate_session(table, token, now) ==
    IF token = "" THEN [table |-> table, result |-> ""]
    ELSE LET user == UserOfToken(table, token)
         IN  IF user = "" THEN [table |-> table, result |-> ""]
             ELSE IF ~table[user].is_active THEN [table |-> table, result |-> ""]
             ELSE IF /\ table[user].session_expires # NoneVal
                     /\ table[user].session_expires < now
             THEN [table |-> [table EXCEPT ![user].session_token = NoToken,
                                           ![user].session_expires = NoneVal],
                   result |-> ""]
             ELSE [table |-> table, result |-> user]

invalidate_session(table, email) ==
    [table EXCEPT ![email].session_token = NoToken,
                  ![email].session_expires = NoneVal]

----------------------------------------------------------------------------
(* AuthService: inputs, actions, specification                             *)

Emails == {"ann@example.com"}
UnknownEmail == "nobody@example.com"

\* passwords callers type: none, one of 5 characters, one of exactly 8, a
\* long one
CallerPasswords == {"", "short", "Pass1234", "NewSecurePass456"}

\* the password argument of create_user
CreatePasswords == {NotGiven, Given(""), Given("Pass1234")}

\* a token nobody was given
ForgedToken == "tok-forged"

DrawnTokens == {SessionTokens[i] : i \in 1..secrets.tokens}
DrawnPasswords == {TempPasswords[i] : i \in 1..secrets.passwords}

\* time passes: half a session's duration at a time, up to a session and a
\* half
ClockStep == 360
MaxClock == 1080

Tick ==
    /\ clock + ClockStep <= MaxClock
    /\ clock' = clock + ClockStep
    /\ ret' = [op |-> "tick"]
    /\ UNCHANGED <<engine, users, secrets, cache>>

\* users.email is unique: a second create_user with the same email fails in
\* commit() and adds nothing, so only new emails are created here
CreateUser(email, password, salt) ==
    /\ email \notin DOMAIN users
    /\ LET draws == password = NotGiven \/ password = Given("")
           made == create_user(email, password,
                               TempPasswords[secrets.passwords + 1], salt)
       IN  /\ draws => secrets.passwords < MaxPasswords
           /\ users' = [e \in (DOMAIN users) \cup {email} |->
                           IF e = email THEN made.user ELSE users[e]]
           /\ secrets' = IF draws THEN [secrets EXCEPT !.passwords = @ + 1]
                         ELSE secrets
           /\ ret' = [op |-> "create_user", email |-> email, password |-> password,
                      temp_password |-> made.temp_password]
    /\ UNCHANGED <<engine, clock, cache>>

Authenticate(email, password) ==
    /\ ret' = [op |-> "authenticate", email |-> email, password |-> password,
               result |-> authenticate(users, email, password)]
    /\ UNCHANGED <<engine, users, secrets, clock, cache>>

ChangePassword(email, new_password, salt) ==
    /\ email \in DOMAIN users
    /\ LET r == change_password(users, email, new_password, salt)
       IN  /\ users' = r.table
           /\ ret' = [op |-> "change_password", email |-> email,
                      new_password |-> new_password, result |-> r.result]
    /\ UNCHANGED <<engine, secrets, clock, cache>>

ResetPassword(email, salt) ==
    /\ email \in DOMAIN users
    /\ secrets.passwords < MaxPasswords
    /\ users' = reset_password(users, email, TempPasswords[secrets.passwords + 1], salt)
    /\ secrets' = [secrets EXCEPT !.passwords = @ + 1]
    /\ ret' = [op |-> "reset_password", email |-> email,
               result |-> TempPasswords[secrets.passwords + 1]]
    /\ UNCHANGED <<engine, clock, cache>>

DeactivateUser(email) ==
    /\ email \in DOMAIN users
    /\ users' = deactivate_user(users, email)
    /\ ret' = [op |-> "deactivate_user", email |-> email, result |-> TRUE]
    /\ UNCHANGED <<engine, secrets, clock, cache>>

CreateSession(email) ==
    /\ email \in DOMAIN users
    /\ secrets.tokens < MaxTokens
    /\ users' = create_session(users, email, SessionTokens[secrets.tokens + 1], clock)
    /\ secrets' = [secrets EXCEPT !.tokens = @ + 1]
    /\ ret' = [op |-> "create_session", email |-> email,
               result |-> SessionTokens[secrets.tokens + 1]]
    /\ UNCHANGED <<engine, clock, cache>>

ValidateSession(token) ==
    /\ LET r == validate_session(users, token, clock)
       IN  /\ users' = r.table
           /\ ret' = [op |-> "validate_session", token |-> token,
                      result |-> r.result]
    /\ UNCHANGED <<engine, secrets, clock, cache>>

InvalidateSession(email) ==
    /\ email \in DOMAIN users
    /\ users' = invalidate_session(users, email)
    /\ ret' = [op |-> "invalidate_session", email |-> email]
    /\ UNCHANGED <<engine, secrets, clock, cache>>

NextAuth ==
    \/ Tick
    \/ \E email \in Emails, password \in CreatePasswords, salt \in Salts :
            CreateUser(email, password, salt)
    \/ \E email \in Emails \cup {UnknownEmail},
          password \in CallerPasswords \cup DrawnPasswords :
            Authenticate(email, password)
    \/ \E email \in Emails, new_password \in CallerPasswords, salt \in Salts :
            ChangePassword(email, new_password, salt)
    \/ \E email \in Emails, salt \in Salts : ResetPassword(email, salt)
    \/ \E email \in Emails : DeactivateUser(email)
    \/ \E email \in Emails : CreateSession(email)
    \/ \E token \in {"", ForgedToken} \cup DrawnTokens : ValidateSession(token)
    \/ \E email \in Emails : InvalidateSession(email)

SpecAuth == Init /\ [][NextAuth]_vars

----------------------------------------------------------------------------
(* AuthService: claims                                                     *)

\* the session of the row has expired at the time now
Expired(row, now) == row.session_expires # NoneVal /\ row.session_expires < now

\* validate_session returns a user only for a non-empty token that is the
\* user's stored token, of an active user, not expired; a token that was
\* replaced by a later create_session or dropped by invalidate_session is
\* rejected
SessionRules ==
    /\ [][ret'.op = "validate_session" =>
             (ret'.result # "" =>
                 /\ ret'.token # ""
                 /\ ret'.result \in DOMAIN users
                 /\ users[ret'.result].session_token = ret'.token
                 /\ users[ret'.result].is_active
                 /\ ~Expired(users[ret'.result], clock)
                 /\ ret'.token = SessionTokens[secrets.tokens])]_vars
    /\ [][ret'.op = "invalidate_session" =>
             \A token \in DrawnTokens :
                 validate_session(users', token, clock').result = ""]_vars
    /\ [](\A i \in 1..(secrets.tokens - 1) :
             validate_session(users, SessionTokens[i], clock).result = "")

\* C26 as stated: the rules of validate_session, and an expired token is
\* cleared from its user by the validation that meets it.
C26_SessionValidation ==
    /\ SessionRules
    /\ [][ret'.op = "validate_session" =>
             \A email \in DOMAIN users :
                 (/\ ret'.token # ""
                  /\ users[email].session_token = ret'.token
                  /\ Expired(users[email], clock))
                 => /\ ret'.result = ""
                    /\ users'[email].session_token = NoToken
                    /\ users'[email].session_expires = NoneVal]_vars

\* C26: the rules of validate_session, and an expired token of an active
\* user is cleared from the user by the validation that meets it.
C26_SessionValidationOfActiveUsers ==
    /\ SessionRules
    /\ [][ret'.op = "validate_session" =>
             \A email \in DOMAIN users :
                 (/\ ret'.token # ""
                  /\ users[email].session_token = ret'.token
                  /\ users[email].is_active
                  /\ Expired(users[email], clock))
                 => /\ ret'.result = ""
                    /\ users'[email].session_token = NoToken
                    /\ users'[email].session_expires = NoneVal]_vars

\* a second session was created, and its token is validated at the very hour
\* it expires: the user is returned
C26_Witness ==
    /\ ret.op = "validate_session"
    /\ ret.token = SessionTokens[2]
    /\ ret.result \in DOMAIN users
    /\ users[ret.result].session_token = ret.token
    /\ users[ret.result].session_expires = clock

\* C27: a deactivated user stays deactivated; authenticate fails for the
\* user whatever the password, and no token that was issued gives the user
\* back from validate_session.
C27_DeactivatedUserIsLockedOut ==
    /\ [][\A email \in DOMAIN users :
             ~users[email].is_active =>
                 (email \in DOMAIN users' /\ ~users'[email].is_active)]_vars
    /\ [](\A email \in DOMAIN users :
             ~users[email].is_active =>
                 /\ \A password \in CallerPasswords \cup DrawnPasswords :
                        ~authenticate(users, email, password).success
                 /\ \A token \in DrawnTokens :
                        validate_session(users, token, clock).result # email)
    /\ [][(ret'.op = "authenticate" /\ ret'.email \in DOMAIN users) =>
             (~users[ret'.email].is_active => ~ret'.result.success)]_vars

\* authenticate has just refused the right password of a deactivated user
\* who still holds an unexpired session token
C27_Witness ==
    /\ ret.op = "authenticate"
    /\ ret.email \in DOMAIN users
    /\ ~users[ret.email].is_active
    /\ verify_password(ret.password, users[ret.email].password_hash)
    /\ ~ret.result.success
    /\ users[ret.email].session_token \in DrawnTokens
    /\ ~Expired(users[ret.email], clock)

\* C28: must_change_password is true exactly when the current password was
\* generated by the system; a change_password of fewer than 8 characters
\* fails and changes nothing; after a successful change or a reset the new
\* password authenticates an active user and a different old one does not.
C28_MustChangeTracksGeneratedPassword ==
    /\ [](\A email \in DOMAIN users :
             users[email].must_change_password
                 <=> users[email].password_hash.digest_of \in DrawnPasswords)
    /\ [][(ret'.op = "change_password" /\ Len(ret'.new_password) < 8) =>
             (ret'.result = FALSE /\ users' = users)]_vars
    /\ [][((ret'.op = "change_password" /\ ret'.result)
              \/ ret'.op = "reset_password") =>
             LET email == ret'.email
                 new == IF ret'.op = "reset_password" THEN ret'.result
                        ELSE ret'.new_password
                 old == users[email].password_hash.digest_of
             IN  users[email].is_active =>
                     /\ authenticate(users', email, new).success
                     /\ old # new => ~authenticate(users', email, old).success]_vars

----------------------------------------------------------------------------
(* services/cache_service.py: SQLiteCacheService.  The cache directory is  *)
(* a function from keys to files, one file "<key>_cache.db" for a key; a    *)
(* file holds the table fund_data and the table cache_metadata.  A cell of  *)
(* a frame is a dtype and a value; a datetime is its yyyymm number.  Time   *)
(* is counted in hours.                                                     *)

Cell(dtype, value) == [dtype |-> dtype, value |-> value]

\* pd.DataFrame(...) with its index
IndexedFrame(index, columns, rows) == [none |-> FALSE, index |-> index, columns |-> columns, rows |-> rows]

\* the None a getter returns
NoFrame == [none |-> TRUE, index |-> <<>>, columns |-> <<>>, rows |-> <<>>]

\* a file that sqlite3.connect created and no table was written to
NoTable == [present |-> FALSE, columns |-> <<>>, rows |-> <<>>]

\* the records of a frame: its columns and the values of its rows, in order
Records(frame) == [none |-> frame.none, columns |-> frame.columns, rows |-> frame.rows]

\* what SQLite keeps of a value: a datetime is written as text
SqlValue(cell) == IF cell.dtype = "datetime64" THEN Cell("object", cell.value) ELSE cell

\* data.to_sql('fund_data', conn, if_exists='replace', index=False)
to_sql(data) ==
    [present |-> TRUE,
     columns |-> data.columns,
     rows    |-> [i \in DOMAIN data.rows |->
                     [c \in DOMAIN data.rows[i] |-> SqlValue(data.rows[i][c])]]]

\* pd.read_sql_query("SELECT * FROM fund_data", conn): a new range index
read_sql_query(table) ==
    IndexedFrame([i \in DOMAIN table.rows |-> i - 1], table.columns, table.rows)

\* pd.to_datetime over a column of the frame
column_to_datetime(df, column) ==
    [df EXCEPT !.rows = [i \in DOMAIN df.rows |->
                            [df.rows[i] EXCEPT ![column] = Cell("datetime64", @.value)]]]

HasColumn(df, column) == \E i \in DOMAIN df.columns : df.columns[i] = column

\* get reading the table back as it is stored
cache_get_AsStored(files, key) ==
    IF key \notin DOMAIN files THEN NoFrame
    ELSE IF ~files[key].fund_data.present THEN NoFrame
    ELSE read_sql_query(files[key].fund_data)

\* SQLiteCacheService.get
cache_get(files, key) ==
    IF key \notin DOMAIN files THEN NoFrame
    ELSE IF ~files[key].fund_data.present THEN NoFrame
    ELSE LET df == read_sql_query(files[key].fund_data)
         IN  IF HasColumn(df, "REPORT_DATE") THEN column_to_datetime(df, "REPORT_DATE")
             ELSE df

\* SQLiteCacheService.set: the file of the key gets the table and the
\* timestamp of the key
cache_set(files, key, data, now) ==
    [k \in DOMAIN files \cup {key} |->
        IF k = key
        THEN [fund_data |-> to_sql(data), cache_metadata |-> [j \in {key} |-> now]]
        ELSE files[k]]

\* SQLiteCacheService.get_age_hours; None is NoneVal
get_age_hours(files, key, now) ==
    IF key \notin DOMAIN files THEN NoneVal
    ELSE IF key \notin DOMAIN files[key].cache_metadata THEN NoneVal
    ELSE now - files[key].cache_metadata[key]

DefaultMaxAge == 24

\* SQLiteCacheService.is_valid; an argument of 0 or None takes the
\* service's max_age_hours
is_valid(files, key, max_age_hours, now) ==
    LET max_age == IF max_age_hours = NoneVal \/ max_age_hours = 0
                   THEN DefaultMaxAge ELSE max_age_hours
        age == get_age_hours(files, key, now)
    IN  IF age = NoneVal THEN FALSE ELSE age < max_age

\* SQLiteCacheService.clear
cache_clear(files, key) == [k \in DOMAIN files \ {key} |-> files[k]]

----------------------------------------------------------------------------
(* SQLiteCacheService: calls                                               *)

CacheKeys == {"key1", "key2"}

IdCell(n) == Cell("int64", n)
IdRow(n) == [c \in {"id"} |-> IdCell(n)]
DatedRow(n, yyyymm) == [c \in {"id", "REPORT_DATE"} |->
                           IF c = "id" THEN IdCell(n) ELSE Cell("datetime64", yyyymm)]

\* the frames of the tests, and a frame left by a row filter, whose index
\* has a gap
CacheFrames ==
    { IndexedFrame(<<0, 1>>, <<"id">>, <<IdRow(1), IdRow(2)>>),
      IndexedFrame(<<0, 1, 2>>, <<"id">>, <<IdRow(3), IdRow(4), IdRow(5)>>),
      IndexedFrame(<<0, 2>>, <<"id">>, <<IdRow(3), IdRow(5)>>),
      IndexedFrame(<<0, 1>>, <<"id", "REPORT_DATE">>, <<DatedRow(1, 202301), DatedRow(2, 202302)>>),
      IndexedFrame(<<>>, <<"id">>, <<>>) }

MaxAges == {NoneVal, 0, 12, 24}
HourStep == 12
MaxHours == 36

CacheTick ==
    /\ clock + HourStep <= MaxHours
    /\ clock' = clock + HourStep
    /\ ret' = [op |-> "tick"]
    /\ UNCHANGED <<engine, users, secrets, cache>>

CacheSet(key, data) ==
    /\ cache' = cache_set(cache, key, data, clock)
    /\ ret' = [op |-> "set", key |-> key, data |-> data]
    /\ UNCHANGED <<engine, users, secrets, clock>>

CacheGet(key) ==
    /\ ret' = [op |-> "get", key |-> key, result |-> cache_get(cache, key)]
    /\ UNCHANGED <<engine, outside>>

CacheGetAgeHours(key) ==
    /\ ret' = [op |-> "get_age_hours", key |-> key,
               result |-> get_age_hours(cache, key, clock)]
    /\ UNCHANGED <<engine, outside>>

CacheIsValid(key, max_age_hours) ==
    /\ ret' = [op |-> "is_valid", key |-> key, max_age_hours |-> max_age_hours,
               result |-> is_valid(cache, key, max_age_hours, clock)]
    /\ UNCHANGED <<engine, outside>>

CacheClear(key) ==
    /\ cache' = cache_clear(cache, key)
    /\ ret' = [op |-> "clear", key |-> key]
    /\ UNCHANGED <<engine, users, secrets, clock>>

NextCache ==
    \/ CacheTick
    \/ \E key \in CacheKeys, data \in CacheFrames : CacheSet(key, data)
    \/ \E key \in CacheKeys : CacheGet(key)
    \/ \E key \in CacheKeys : CacheGetAgeHours(key)
    \/ \E key \in CacheKeys, max_age_hours \in MaxAges : CacheIsValid(key, max_age_hours)
    \/ \E key \in CacheKeys : CacheClear(key)

SpecCache == Init /\ [][NextCache]_vars

----------------------------------------------------------------------------
(* calculate_period_yield over windows with absent returns: one fund whose *)
(* record of a month is missing, carries no return, or carries one         *)

AbsentMonths == <<202310, 202311, 202312>>

\* NoneVal: the fund has no record of the month; NaN: a record without a
\* return
MonthStates == {NoneVal, NaN, 0, 50, -50, 150}

MaxAbsentWindow == 3

AbsentRows(states) ==
    LET all == [i \in 1..Len(AbsentMonths) |->
                   Rec(1, "General", AbsentMonths[i], states[i],
                       350, 4500, 3000, 2000, 1500)]
    IN  SelectSeq(all, LAMBDA r : r["MONTHLY_YIELD"] # NoneVal)

AbsentCalls ==
    [valid : {FALSE},
     all_df : {Frame(AbsentRows(states), {}) :
                  states \in [1..Len(AbsentMonths) -> MonthStates]},
     fund_id : {1},
     period_months : 1..MaxAbsentWindow,
     selected_period : {202312}]

InitAbsent ==
    /\ DEFAULT_THRESHOLDS = InitialThresholds
    /\ db = _init_default_settings([k \in {} |-> NoneVal], InitialThresholds)
    /\ service = "ready"
    /\ query \in AbsentCalls
    /\ eligible_df = DataFrame({}, <<>>)
    /\ ret = [op |-> "none"]
    /\ OutsideInit

NextAbsent == CalculatePeriodYield

SpecAbsent == InitAbsent /\ [][NextAbsent]_vars

\* the returns of a series that are not absent
NonAbsent(series) == SelectSeq(series, LAMBDA x : ~IsNaN(x))

\* the series with a return of 0.00 in the place of each absent one
ZeroFilled(series) == [i \in 1..Len(series) |-> IF IsNaN(series[i]) THEN 0 ELSE series[i]]

HasAbsent(series) == \E i \in 1..Len(series) : IsNaN(series[i])

SameSign(series) ==
    \/ \A i \in 1..Len(series) : series[i] > 0
    \/ \A i \in 1..Len(series) : series[i] < 0

\* a record with an absent return counts toward coverage and toward n and
\* adds no growth factor: the result is that of the window with 0.00 in the
\* place of each absent return
AbsentCountsAsNoGrowth ==
    ret.op = "calculate_period_yield" =>
        LET series == SeriesInWindow(query.all_df, query.fund_id,
                                     query.period_months, query.selected_period)
        IN  HasAbsent(series) =>
                /\ ret.result = NoneVal
                       <=> Len(series) < (query.period_months * 8) \div 10
                /\ ret.result # NoneVal =>
                       ret.result = calculate_compounded_yield(ZeroFilled(series))

====
